---- MODULE Spec2Model ----
(***************************************************************************)
(* Workbook import of the visit planner: the /import/workbook request of   *)
(* app/main.py and import_planner_workbook of app/workbook_import.py, with *)
(* the relational store it reads and writes.                               *)
(*                                                                         *)
(* Text is a sequence of one-character strings, so that the normalizers    *)
(* (strip, upper, split, parse) are computed as the code computes them.    *)
(* SQL NULL and Python None are the empty sequence <<>>; a present value v *)
(* of a nullable column or an optional result is <<v>>.                    *)
(***************************************************************************)
EXTENDS Integers, Sequences, FiniteSets, TLC

\* ---------------------------------------------------------------- text

NBSP == "NBSP"

DigitChars == <<"0", "1", "2", "3", "4", "5", "6", "7", "8", "9">>

LowerChars ==
  <<"a", "b", "c", "d", "e", "f", "g", "h", "i", "j", "k", "l", "m",
    "n", "o", "p", "q", "r", "s", "t", "u", "v", "w", "x", "y", "z">>

UpperChars ==
  <<"A", "B", "C", "D", "E", "F", "G", "H", "I", "J", "K", "L", "M",
    "N", "O", "P", "Q", "R", "S", "T", "U", "V", "W", "X", "Y", "Z">>

IsSpace(c) == c \in {" ", "\t", "\n"}

IsDigitCh(c) == \E i \in 1..10 : DigitChars[i] = c

DigitVal(c) == (CHOOSE i \in 1..10 : DigitChars[i] = c) - 1

IsLowerCh(c) == \E i \in 1..26 : LowerChars[i] = c

IsUpperCh(c) == \E i \in 1..26 : UpperChars[i] = c

IsAlnumCh(c) == IsDigitCh(c) \/ IsLowerCh(c) \/ IsUpperCh(c)

UpperCh(c) ==
  IF IsLowerCh(c) THEN UpperChars[CHOOSE i \in 1..26 : LowerChars[i] = c] ELSE c

LowerCh(c) ==
  IF IsUpperCh(c) THEN LowerChars[CHOOSE i \in 1..26 : UpperChars[i] = c] ELSE c

Upper(s) == [i \in 1..Len(s) |-> UpperCh(s[i])]

Lower(s) == [i \in 1..Len(s) |-> LowerCh(s[i])]

ReplaceCh(s, a, b) == [i \in 1..Len(s) |-> IF s[i] = a THEN b ELSE s[i]]

RECURSIVE LStrip(_)
LStrip(s) ==
  IF s = <<>> THEN s
  ELSE IF IsSpace(Head(s)) THEN LStrip(Tail(s)) ELSE s

RECURSIVE RStrip(_)
RStrip(s) ==
  IF s = <<>> THEN s
  ELSE IF IsSpace(s[Len(s)]) THEN RStrip(SubSeq(s, 1, Len(s) - 1)) ELSE s

Strip(s) == RStrip(LStrip(s))

RECURSIVE LStripCh(_, _)
LStripCh(s, c) ==
  IF s = <<>> THEN s
  ELSE IF Head(s) = c THEN LStripCh(Tail(s), c) ELSE s

StartsWith(s, p) == Len(s) >= Len(p) /\ SubSeq(s, 1, Len(p)) = p

EndsWith(s, p) ==
  Len(s) >= Len(p) /\ SubSeq(s, Len(s) - Len(p) + 1, Len(s)) = p

HasCh(s, c) == \E i \in 1..Len(s) : s[i] = c

FirstIndex(s, c) == CHOOSE i \in 1..Len(s) : s[i] = c /\ \A j \in 1..(i - 1) : s[j] # c

\* str.replace(c, "", 1)
RemoveFirst(s, c) ==
  IF HasCh(s, c)
  THEN SubSeq(s, 1, FirstIndex(s, c) - 1) \o SubSeq(s, FirstIndex(s, c) + 1, Len(s))
  ELSE s

\* str.split(c)
RECURSIVE SplitOn(_, _)
SplitOn(s, c) ==
  IF ~HasCh(s, c) THEN <<s>>
  ELSE <<SubSeq(s, 1, FirstIndex(s, c) - 1)>>
         \o SplitOn(SubSeq(s, FirstIndex(s, c) + 1, Len(s)), c)

\* str.split(): the maximal runs of non-space characters
RECURSIVE Words(_)
Words(s) ==
  LET t == LStrip(s) IN
  IF t = <<>> THEN <<>>
  ELSE IF \E i \in 1..Len(t) : IsSpace(t[i])
       THEN LET k == CHOOSE i \in 1..Len(t) :
                       IsSpace(t[i]) /\ \A j \in 1..(i - 1) : ~IsSpace(t[j])
            IN <<SubSeq(t, 1, k - 1)>> \o Words(SubSeq(t, k + 1, Len(t)))
       ELSE <<t>>

\* " ".join(parts)
RECURSIVE JoinWith(_, _)
JoinWith(parts, sep) ==
  IF parts = <<>> THEN <<>>
  ELSE IF Len(parts) = 1 THEN parts[1]
  ELSE parts[1] \o sep \o JoinWith(Tail(parts), sep)

\* str.isdigit(): false on the empty string
IsDigitStr(s) == s # <<>> /\ \A i \in 1..Len(s) : IsDigitCh(s[i])

RECURSIVE NatVal(_)
NatVal(s) ==
  IF s = <<>> THEN 0
  ELSE NatVal(SubSeq(s, 1, Len(s) - 1)) * 10 + DigitVal(s[Len(s)])

RECURSIVE NatStr(_)
NatStr(n) ==
  IF n < 10 THEN <<DigitChars[n + 1]>>
  ELSE NatStr(n \div 10) \o <<DigitChars[(n % 10) + 1]>>

IntStr(n) == IF n < 0 THEN <<"-">> \o NatStr(-n) ELSE NatStr(n)

RECURSIVE ZeroPad(_, _)
ZeroPad(s, width) == IF Len(s) >= width THEN s ELSE ZeroPad(<<"0">> \o s, width)

Pad2(n) == ZeroPad(NatStr(n), 2)

Pad4(n) == ZeroPad(NatStr(n), 4)

\* ---------------------------------------------------------- cell values

\* What the workbook reader hands over for one cell: None, a string, an int, a
\* float (here with one decimal digit), a bool, a date or a datetime (at midnight).
NoCell == [t |-> "none"]
StrCell(s) == [t |-> "str", s |-> s]
IntCell(n) == [t |-> "int", n |-> n]
FloatCell(n, tenth) == [t |-> "float", n |-> n, tenth |-> tenth]
BoolCell(b) == [t |-> "bool", b |-> b]
DateCell(y, m, d) == [t |-> "date", d |-> [y |-> y, m |-> m, d |-> d]]
DateTimeCell(y, m, d) == [t |-> "datetime", d |-> [y |-> y, m |-> m, d |-> d]]

IsoDate(d) == Pad4(d.y) \o <<"-">> \o Pad2(d.m) \o <<"-">> \o Pad2(d.d)

\* Python's str(value)
PyStr(v) ==
  CASE v.t = "none" -> <<"N", "o", "n", "e">>
    [] v.t = "str" -> v.s
    [] v.t = "int" -> IntStr(v.n)
    [] v.t = "float" -> NatStr(v.n) \o <<".">> \o NatStr(v.tenth)
    [] v.t = "bool" -> IF v.b THEN <<"T", "r", "u", "e">> ELSE <<"F", "a", "l", "s", "e">>
    [] v.t = "date" -> IsoDate(v.d)
    [] v.t = "datetime" ->
         IsoDate(v.d) \o <<" ", "0", "0", ":", "0", "0", ":", "0", "0">>

\* ---------------------------------------------------------- normalizers

None == <<>>
Some(v) == <<v>>

\* _clean_text of a str
CleanStr(s) == Strip(ReplaceCh(s, NBSP, " "))

_clean_text(value) == IF value.t = "none" THEN <<>> ELSE CleanStr(PyStr(value))

\* _clean_code of an already cleaned string
CodeOfRaw(raw) ==
  IF raw = <<>> THEN <<>>
  ELSE IF raw \in {<<"0">>, <<"0", ".", "0">>} THEN <<>>
  ELSE IF EndsWith(raw, <<".", "0">>) /\ IsDigitStr(RemoveFirst(raw, "."))
       THEN SubSeq(raw, 1, Len(raw) - 2)
       ELSE raw

_clean_code(value) == CodeOfRaw(_clean_text(value))

_normalize_header_label(s) ==
  LET collapse(raw) ==
        JoinWith(Words([i \in 1..Len(raw) |->
                          IF IsAlnumCh(raw[i]) \/ raw[i] = " " THEN raw[i] ELSE " "]),
                 <<" ">>)
  IN collapse(ReplaceCh(ReplaceCh(ReplaceCh(Upper(CleanStr(s)), "_", " "), "-", " "), "/", " "))

\* The labels of a header row, normalized
NormalizedLabels(headers) == [i \in 1..Len(headers) |-> _normalize_header_label(headers[i])]

\* As _find_header_column, over labels already normalized
FindLabel(labels, candidates) ==
  LET first(normalized_candidates) ==
        LET least(hits) ==
              IF normalized_candidates = {} \/ hits = {} THEN None
              ELSE Some(CHOOSE i \in hits : \A j \in hits : i <= j)
        IN least({i \in 1..Len(labels) : labels[i] \in normalized_candidates})
  IN first({_normalize_header_label(c) : c \in {x \in candidates : CleanStr(x) # <<>>}})

\* headers: a list of strings; candidates: a set of strings. The 1-based index of
\* the first header whose normalized label is a normalized candidate, or None.
_find_header_column(headers, candidates) == FindLabel(NormalizedLabels(headers), candidates)

\* column_index: None or Some(n)
_column_value(row, column_index) ==
  IF column_index = None THEN NoCell
  ELSE IF column_index[1] <= 0 \/ column_index[1] > Len(row) THEN NoCell
  ELSE row[column_index[1]]

\* row[i] if len(row) > i else None, for a 0-based i
RowAt(row, i) == IF Len(row) > i THEN row[i + 1] ELSE NoCell

_is_effectively_empty(value) ==
  CASE value.t = "none" -> TRUE
    [] value.t = "bool" -> ~value.b
    [] value.t = "int" -> value.n = 0
    [] value.t = "float" -> value.n = 0 /\ value.tenth = 0
    [] OTHER -> _clean_text(value) = <<>>

_has_meaningful_values(values) ==
  \E i \in 1..Len(values) : ~_is_effectively_empty(values[i])

\* A check that takes every row for populated
RowAlwaysPopulated(row) == TRUE

_is_row_populated(row) == \E i \in 1..Len(row) : _clean_text(row[i]) # <<>>

\* [p.strip() for p in raw.split("|") if p.strip()]
RECURSIVE NonEmptyParts(_)
NonEmptyParts(parts) ==
  IF parts = <<>> THEN <<>>
  ELSE IF Strip(Head(parts)) = <<>> THEN NonEmptyParts(Tail(parts))
  ELSE <<Strip(Head(parts))>> \o NonEmptyParts(Tail(parts))

_extract_name(value) ==
  LET last_part(raw) ==
        IF raw = <<>> THEN <<>>
        ELSE IF HasCh(raw, "|")
             THEN LET pick(parts) == IF Len(parts) >= 2 THEN parts[Len(parts)] ELSE raw
                  IN pick(NonEmptyParts(SplitOn(raw, "|")))
             ELSE raw
  IN last_part(_clean_text(value))

IsLeap(y) == (y % 4 = 0 /\ y % 100 # 0) \/ y % 400 = 0

DaysIn(y, m) ==
  IF m = 2 THEN (IF IsLeap(y) THEN 29 ELSE 28)
  ELSE IF m \in {4, 6, 9, 11} THEN 30 ELSE 31

\* strptime's %Y, %m and %d: what each directive accepts
YearField(p) == Len(p) = 4 /\ IsDigitStr(p)

MonthField(p) ==
  \/ Len(p) = 1 /\ IsDigitStr(p) /\ NatVal(p) >= 1
  \/ Len(p) = 2 /\ IsDigitStr(p) /\ NatVal(p) \in 1..12

DayField(p) ==
  \/ Len(p) = 1 /\ IsDigitStr(p) /\ NatVal(p) >= 1
  \/ Len(p) = 2 /\ IsDigitStr(p) /\ NatVal(p) \in 1..31
  \/ Len(p) = 2 /\ p[1] = " " /\ IsDigitCh(p[2]) /\ p[2] # "0"

\* datetime.strptime(raw, fmt).date() for the formats Y<sep>m<sep>d (yfirst) and
\* d<sep>m<sep>Y; None where strptime raises ValueError
ParseDate(raw, sep, yfirst) ==
  LET date(y, m, d) ==
        IF y < 1 \/ d > DaysIn(y, m) THEN None ELSE Some([y |-> y, m |-> m, d |-> d])
      fields(yp, mp, dp) ==
        IF ~(YearField(yp) /\ MonthField(mp) /\ DayField(dp)) THEN None
        ELSE date(NatVal(yp), NatVal(mp), NatVal(LStrip(dp)))
      split(parts) ==
        IF Len(parts) # 3 THEN None
        ELSE IF yfirst THEN fields(parts[1], parts[2], parts[3])
        ELSE fields(parts[3], parts[2], parts[1])
  IN split(SplitOn(raw, sep))

\* The first of the formats %Y-%m-%d, %d/%m/%Y, %d-%m-%Y that parses raw
FirstFormat(iso, slash, dash) ==
  IF iso # None THEN iso ELSE IF slash # None THEN slash ELSE dash

\* _to_date of a value that is neither None nor a date, from its cleaned text
DateOfRaw(raw) ==
  IF raw = <<>> THEN None
  ELSE FirstFormat(ParseDate(raw, "-", TRUE), ParseDate(raw, "/", FALSE),
                   ParseDate(raw, "-", FALSE))

_to_date(value) ==
  CASE value.t = "none" -> None
    [] value.t \in {"date", "datetime"} -> Some(value.d)
    [] OTHER -> DateOfRaw(_clean_text(value))

TruthyWords ==
  { <<"t", "r", "u", "e">>, <<"y", "e", "s">>, <<"y">>, <<"1">>,
    <<"d", "o", "n", "e">>, <<"c", "o", "m", "p", "l", "e", "t", "e", "d">>, <<"x">> }

_to_bool(value) ==
  CASE value.t = "bool" -> value.b
    [] value.t = "int" -> value.n > 0
    [] value.t = "float" -> value.n > 0 \/ (value.n = 0 /\ value.tenth > 0)
    [] OTHER -> Lower(_clean_text(value)) \in TruthyWords

\* int(raw) of Python: an optional sign and digits; anything else raises ValueError
IntLiteral(raw) ==
  \/ IsDigitStr(raw)
  \/ Len(raw) >= 2 /\ raw[1] \in {"-", "+"} /\ IsDigitStr(Tail(raw))

\* _to_int of a str, from its cleaned text
IntOfRaw(raw0) ==
  LET convert(raw) ==
        IF IsDigitStr(LStripCh(raw, "-"))
        THEN IF IntLiteral(raw)
             THEN [val |-> Some(IF raw[1] = "-" THEN -NatVal(Tail(raw)) ELSE NatVal(raw)),
                   exc |-> ""]
             ELSE [val |-> None, exc |-> "ValueError"]
        ELSE [val |-> None, exc |-> ""]
  IN IF raw0 = <<>> THEN [val |-> None, exc |-> ""]
     ELSE IF EndsWith(raw0, <<".", "0">>) /\ IsDigitStr(RemoveFirst(raw0, "."))
          THEN convert(SubSeq(raw0, 1, Len(raw0) - 2))
          ELSE convert(raw0)

\* [val |-> None or Some(int), exc |-> "" or "ValueError"]
_to_int(value) ==
  CASE value.t = "none" -> [val |-> None, exc |-> ""]
    [] value.t = "bool" -> [val |-> Some(IF value.b THEN 1 ELSE 0), exc |-> ""]
    [] value.t = "int" -> [val |-> Some(value.n), exc |-> ""]
    [] value.t = "float" ->
         [val |-> IF value.tenth = 0 THEN Some(value.n) ELSE None, exc |-> ""]
    [] OTHER -> IntOfRaw(_clean_text(value))

\* ------------------------------------------------------- summary ledger

ROW_ISSUE_LIMIT == 300

\* A formatted message: the format string and the values substituted into it.
Msg(fmt, args) == [fmt |-> fmt, args |-> args]

NewSummary(filename, dry_run, upsert_policy, validation_mode, duplicate_policy) ==
  [ filename |-> filename,
    dry_run |-> dry_run,
    upsert_policy |-> upsert_policy,
    validation_mode |-> validation_mode,
    duplicate_policy |-> duplicate_policy,
    calendar_year |-> None,
    territories_created |-> 0,
    customers_created |-> 0,
    customers_updated |-> 0,
    customers_skipped_existing |-> 0,
    stores_created |-> 0,
    stores_updated |-> 0,
    stores_skipped_existing |-> 0,
    products_created |-> 0,
    products_updated |-> 0,
    products_skipped_existing |-> 0,
    cvm_entries_upserted |-> 0,
    cvm_entries_skipped_existing |-> 0,
    warnings |-> <<>>,
    warning_count |-> 0,
    error_count |-> 0,
    row_issues |-> <<>>,
    row_issue_limit |-> ROW_ISSUE_LIMIT,
    row_issues_truncated |-> 0,
    duplicate_rows_skipped |-> 0,
    blockers |-> <<>>,
    can_apply |-> TRUE ]

\* _record_issue without the test against row_issue_limit
_record_issue_unbounded(summary, level, sheet, row, message) ==
  LET issue == [level |-> level, sheet |-> sheet, row |-> row, message |-> message]
      stored == [summary EXCEPT !.row_issues = Append(@, issue)]
  IN IF level = "error" THEN [stored EXCEPT !.error_count = @ + 1]
     ELSE IF level = "warning" THEN [stored EXCEPT !.warning_count = @ + 1]
     ELSE stored

_record_issue(summary, level, sheet, row, message) ==
  LET issue == [level |-> level, sheet |-> sheet, row |-> row, message |-> message]
      stored == IF Len(summary.row_issues) < summary.row_issue_limit
                THEN [summary EXCEPT !.row_issues = Append(@, issue)]
                ELSE [summary EXCEPT !.row_issues_truncated = @ + 1]
  IN IF level = "error" THEN [stored EXCEPT !.error_count = @ + 1]
     ELSE IF level = "warning" THEN [stored EXCEPT !.warning_count = @ + 1]
     ELSE stored

_validation_level(summary) ==
  IF summary.validation_mode = "strict" THEN "error" ELSE "warning"

\* _add_blocker without the test `message not in blockers`
_add_blocker_unchecked(summary, message) ==
  [summary EXCEPT !.blockers = Append(@, message)]

_add_blocker(summary, message) ==
  IF \E i \in 1..Len(summary.blockers) : summary.blockers[i] = message
  THEN summary
  ELSE [summary EXCEPT !.blockers = Append(@, message)]

\* sheet: None or Some(title); row: None or Some(n)
_add_warning(summary, message, sheet, row) ==
  LET listed == [summary EXCEPT !.warnings = Append(@, message)] IN
  IF sheet # None /\ sheet[1] # <<>>
  THEN _record_issue(listed, "warning", sheet[1], row, message)
  ELSE [listed EXCEPT !.warning_count = @ + 1]

DuplicateBlocker ==
  Msg("Duplicate key errors were found with duplicate policy set to 'error'.", <<>>)

DuplicateMessage(label, key, first_row, suffix) ==
  Msg("Duplicate {0} key '{1}' (first seen at row {2}).{3}",
      <<label, key, NatStr(first_row), suffix>>)

LastRowWins == <<" ", "L", "a", "s", "t", " ", "r", "o", "w", " ", "w", "i", "n", "s", ".">>

RowSkippedFirstKept == <<" ", "R", "o", "w", " ", "s", "k", "i", "p", "p", "e", "d", " ",
                         "(", "f", "i", "r", "s", "t", " ", "r", "o", "w", " ",
                         "k", "e", "p", "t", ")", ".">>

RowSkippedPolicyError == <<" ", "R", "o", "w", " ", "s", "k", "i", "p", "p", "e", "d", " ",
                           "(", "d", "u", "p", "l", "i", "c", "a", "t", "e", " ",
                           "p", "o", "l", "i", "c", "y", " ", "=", " ",
                           "e", "r", "r", "o", "r", ")", ".">>

\* _register_duplicate without the blocker of duplicate policy error
_register_duplicate_unblocked(summary, seen, key, sheet, row, label) ==
  IF key \notin DOMAIN seen
  THEN [ok |-> TRUE, summary |-> summary, seen |-> (key :> row) @@ seen]
  ELSE IF summary.duplicate_policy = "last_wins"
       THEN [ ok |-> TRUE,
              summary |-> _record_issue(summary, "warning", sheet, Some(row),
                                        DuplicateMessage(label, key, seen[key], LastRowWins)),
              seen |-> seen ]
       ELSE [ ok |-> FALSE,
              summary |-> _record_issue(
                            [summary EXCEPT !.duplicate_rows_skipped = @ + 1],
                            IF summary.duplicate_policy = "first_wins"
                            THEN "warning" ELSE "error",
                            sheet, Some(row),
                            DuplicateMessage(label, key, seen[key],
                                             IF summary.duplicate_policy = "first_wins"
                                             THEN RowSkippedFirstKept
                                             ELSE RowSkippedPolicyError)),
              seen |-> seen ]

\* seen: a function from the keys seen to the row each was first seen at.
\* [ok |-> whether the row is accepted, summary |-> ..., seen |-> ...]
_register_duplicate(summary, seen, key, sheet, row, label) ==
  IF key \notin DOMAIN seen
  THEN [ok |-> TRUE, summary |-> summary, seen |-> (key :> row) @@ seen]
  ELSE LET first_row == seen[key] IN
       CASE summary.duplicate_policy = "last_wins" ->
              [ ok |-> TRUE,
                summary |-> _record_issue(summary, "warning", sheet, Some(row),
                                          DuplicateMessage(label, key, first_row, LastRowWins)),
                seen |-> seen ]
         [] summary.duplicate_policy = "first_wins" ->
              [ ok |-> FALSE,
                summary |-> _record_issue(
                              [summary EXCEPT !.duplicate_rows_skipped = @ + 1],
                              "warning", sheet, Some(row),
                              DuplicateMessage(label, key, first_row, RowSkippedFirstKept)),
                seen |-> seen ]
         [] OTHER ->
              [ ok |-> FALSE,
                summary |-> _add_blocker(
                              _record_issue(
                                [summary EXCEPT !.duplicate_rows_skipped = @ + 1],
                                "error", sheet, Some(row),
                                DuplicateMessage(label, key, first_row, RowSkippedPolicyError)),
                              DuplicateBlocker),
                seen |-> seen ]

\* [val |-> None or Some(date), summary |-> ...]
_to_date_with_issue(value, summary, sheet, row, field) ==
  LET report(raw) ==
        IF raw # <<>>
        THEN [ val |-> None,
               summary |-> _record_issue(summary, _validation_level(summary), sheet, Some(row),
                                         Msg("Invalid date '{0}' in {1}; value ignored.",
                                             <<raw, field>>)) ]
        ELSE [val |-> None, summary |-> summary]
      decide(parsed) ==
        IF parsed # None THEN [val |-> parsed, summary |-> summary]
        ELSE report(_clean_text(value))
  IN IF value.t = "none" THEN [val |-> None, summary |-> summary]
     ELSE decide(_to_date(value))

\* ------------------------------------------------------ relational store

\* A table is the sequence of its rows in id order: a row's id is its index, and an
\* insert returns the next index. cvm_month_entries, whose rows the importer reaches
\* only by their unique key, is a function from <<customer_id, year, month>>.
\* created_at and updated_at (NOW()) are not modelled.
EmptyDb ==
  [ territories |-> <<>>, customers |-> <<>>, stores |-> <<>>, products |-> <<>>,
    cvm_month_entries |-> <<>> ]

NULLIF(s) == IF s = <<>> THEN None ELSE Some(s)

COALESCE(a, b) == IF a # None THEN a ELSE b

\* The context the importer threads through every helper: the session's view of
\* the store, the summary, the territory cache, and the exception raised, if any.
Ctx(db, summary, cache) == [db |-> db, summary |-> summary, cache |-> cache, exc |-> ""]

Bump(summary, counter) == [summary EXCEPT ![counter] = @ + 1]

\* An insert for every name that is not blank, without cache or SELECT
InsertTerritory(ctx, territory_name) ==
  IF CleanStr(territory_name) = <<>> THEN [ctx |-> ctx, id |-> None]
  ELSE [ ctx |-> [ctx EXCEPT
                    !.db.territories = Append(@, [name |-> CleanStr(territory_name)]),
                    !.summary = Bump(@, "territories_created")],
         id |-> Some(Len(ctx.db.territories) + 1) ]

\* [ctx |-> ..., id |-> None or Some(territory id)]
_get_or_create_territory(ctx, territory_name) ==
  LET resolve(name) ==
        LET existing == {i \in 1..Len(ctx.db.territories) : ctx.db.territories[i].name = name}
            territory_id == Len(ctx.db.territories) + 1
        IN IF name = <<>> THEN [ctx |-> ctx, id |-> None]
           ELSE IF name \in DOMAIN ctx.cache THEN [ctx |-> ctx, id |-> Some(ctx.cache[name])]
           ELSE IF existing # {}
                THEN LET found == CHOOSE i \in existing : TRUE IN
                     [ ctx |-> [ctx EXCEPT !.cache = (name :> found) @@ @],
                       id |-> Some(found) ]
                ELSE [ ctx |-> [ctx EXCEPT
                                  !.db.territories = Append(@, [name |-> name]),
                                  !.cache = (name :> territory_id) @@ @,
                                  !.summary = Bump(@, "territories_created")],
                       id |-> Some(territory_id) ]
  IN resolve(CleanStr(territory_name))

CustomerTextFields ==
  {"trade_name", "group_name", "group_2_iws", "iws_code", "old_value", "old_name", "cvm_notes"}

\* The keyword arguments of _upsert_customer at their defaults
NoKw ==
  [ trade_name |-> <<>>, group_name |-> <<>>, group_2_iws |-> <<>>, iws_code |-> <<>>,
    old_value |-> <<>>, old_name |-> <<>>, door_count |-> None, cvm_notes |-> <<>> ]

CustomerIdOf(db, code) ==
  LET found == {i \in 1..Len(db.customers) : db.customers[i].cust_code = code} IN
  IF found = {} THEN None ELSE Some(CHOOSE i \in found : \A j \in found : i <= j)

\* An insert that stores the row's name as it is, blank or not
InsertedCustomerUnnamed(code, name, territory_id, kw) ==
  [ cust_code |-> code,
    name |-> name,
    trade_name |-> NULLIF(CleanStr(kw.trade_name)),
    territory_id |-> territory_id,
    group_name |-> NULLIF(CleanStr(kw.group_name)),
    group_2_iws |-> NULLIF(CleanStr(kw.group_2_iws)),
    iws_code |-> NULLIF(CleanStr(kw.iws_code)),
    old_value |-> NULLIF(CleanStr(kw.old_value)),
    old_name |-> NULLIF(CleanStr(kw.old_name)),
    door_count |-> kw.door_count,
    cvm_notes |-> NULLIF(CleanStr(kw.cvm_notes)) ]

InsertedCustomer(code, name, territory_id, kw) ==
  [ cust_code |-> code,
    name |-> IF name # <<>> THEN name
             ELSE <<"C", "u", "s", "t", "o", "m", "e", "r", " ">> \o code,
    trade_name |-> NULLIF(CleanStr(kw.trade_name)),
    territory_id |-> territory_id,
    group_name |-> NULLIF(CleanStr(kw.group_name)),
    group_2_iws |-> NULLIF(CleanStr(kw.group_2_iws)),
    iws_code |-> NULLIF(CleanStr(kw.iws_code)),
    old_value |-> NULLIF(CleanStr(kw.old_value)),
    old_name |-> NULLIF(CleanStr(kw.old_name)),
    door_count |-> kw.door_count,
    cvm_notes |-> NULLIF(CleanStr(kw.cvm_notes)) ]

\* An overwrite that keeps the group fields, the old value and name and the
\* notes where the call supplies none
OverwrittenCustomerKeeping(old, name, territory_id, kw) ==
  [ cust_code |-> old.cust_code,
    name |-> IF NULLIF(name) = None THEN old.name ELSE name,
    trade_name |-> NULLIF(CleanStr(kw.trade_name)),
    territory_id |-> territory_id,
    group_name |-> COALESCE(NULLIF(CleanStr(kw.group_name)), old.group_name),
    group_2_iws |-> COALESCE(NULLIF(CleanStr(kw.group_2_iws)), old.group_2_iws),
    iws_code |-> COALESCE(NULLIF(CleanStr(kw.iws_code)), old.iws_code),
    old_value |-> COALESCE(NULLIF(CleanStr(kw.old_value)), old.old_value),
    old_name |-> COALESCE(NULLIF(CleanStr(kw.old_name)), old.old_name),
    door_count |-> COALESCE(kw.door_count, old.door_count),
    cvm_notes |-> COALESCE(NULLIF(CleanStr(kw.cvm_notes)), old.cvm_notes) ]

OverwrittenCustomer(old, name, territory_id, kw) ==
  [ cust_code |-> old.cust_code,
    name |-> IF NULLIF(name) = None THEN old.name ELSE name,
    trade_name |-> NULLIF(CleanStr(kw.trade_name)),
    territory_id |-> territory_id,
    group_name |-> NULLIF(CleanStr(kw.group_name)),
    group_2_iws |-> NULLIF(CleanStr(kw.group_2_iws)),
    iws_code |-> NULLIF(CleanStr(kw.iws_code)),
    old_value |-> NULLIF(CleanStr(kw.old_value)),
    old_name |-> NULLIF(CleanStr(kw.old_name)),
    door_count |-> COALESCE(kw.door_count, old.door_count),
    cvm_notes |-> NULLIF(CleanStr(kw.cvm_notes)) ]

\* A merge that writes nothing: the customer stays as it was
KeptCustomer(old, name, territory_id, kw) == old

MergedCustomer(old, name, territory_id, kw) ==
  [ cust_code |-> old.cust_code,
    name |-> COALESCE(NULLIF(name), Some(old.name))[1],
    trade_name |-> COALESCE(NULLIF(CleanStr(kw.trade_name)), old.trade_name),
    territory_id |-> COALESCE(territory_id, old.territory_id),
    group_name |-> COALESCE(NULLIF(CleanStr(kw.group_name)), old.group_name),
    group_2_iws |-> COALESCE(NULLIF(CleanStr(kw.group_2_iws)), old.group_2_iws),
    iws_code |-> COALESCE(NULLIF(CleanStr(kw.iws_code)), old.iws_code),
    old_value |-> COALESCE(NULLIF(CleanStr(kw.old_value)), old.old_value),
    old_name |-> COALESCE(NULLIF(CleanStr(kw.old_name)), old.old_name),
    door_count |-> COALESCE(kw.door_count, old.door_count),
    cvm_notes |-> COALESCE(NULLIF(CleanStr(kw.cvm_notes)), old.cvm_notes) ]

\* _upsert_customer without the create_only branch: an existing customer is merged
_upsert_customer_unguarded(ctx, cust_code, customer_name, territory_id, upsert_policy, kw) ==
  LET write(code, name, existing) ==
        IF code = <<>> THEN [ctx |-> [ctx EXCEPT !.exc = "HTTPException"], id |-> 0]
        ELSE IF existing = None
             THEN [ ctx |-> [ctx EXCEPT
                               !.db.customers =
                                  Append(@, InsertedCustomer(code, name, territory_id, kw)),
                               !.summary = Bump(@, "customers_created")],
                    id |-> Len(ctx.db.customers) + 1 ]
        ELSE [ ctx |-> [ctx EXCEPT
                          !.db.customers[existing[1]] =
                             [@ EXCEPT !.name = IF name = <<>> THEN @ ELSE name],
                          !.summary = Bump(@, "customers_updated")],
               id |-> existing[1] ]
  IN write(CodeOfRaw(CleanStr(cust_code)), CleanStr(customer_name),
           CustomerIdOf(ctx.db, CodeOfRaw(CleanStr(cust_code))))

\* [ctx |-> ..., id |-> the customer's id]; ctx.exc is set when the code raises
_upsert_customer(ctx, cust_code, customer_name, territory_id, upsert_policy, kw) ==
  LET write(code, name, existing) ==
        IF code = <<>> THEN [ctx |-> [ctx EXCEPT !.exc = "HTTPException"], id |-> 0]
        ELSE IF existing = None
             THEN [ ctx |-> [ctx EXCEPT
                               !.db.customers =
                                  Append(@, InsertedCustomer(code, name, territory_id, kw)),
                               !.summary = Bump(@, "customers_created")],
                    id |-> Len(ctx.db.customers) + 1 ]
        ELSE IF upsert_policy = "create_only"
             THEN [ ctx |-> [ctx EXCEPT !.summary = Bump(@, "customers_skipped_existing")],
                    id |-> existing[1] ]
        ELSE IF upsert_policy = "overwrite"
             THEN [ ctx |-> [ctx EXCEPT
                               !.db.customers[existing[1]] =
                                  OverwrittenCustomer(@, name, territory_id, kw),
                               !.summary = Bump(@, "customers_updated")],
                    id |-> existing[1] ]
        ELSE [ ctx |-> [ctx EXCEPT
                          !.db.customers[existing[1]] =
                             MergedCustomer(@, name, territory_id, kw),
                          !.summary = Bump(@, "customers_updated")],
               id |-> existing[1] ]
      find(code, name) == write(code, name, CustomerIdOf(ctx.db, code))
  IN find(CodeOfRaw(CleanStr(cust_code)), CleanStr(customer_name))

StoreTextFields ==
  { "address_1", "address_2", "city", "state", "postcode", "country",
    "main_contact", "owner_name", "owner_phone", "owner_email",
    "store_manager_name", "store_phone", "store_email",
    "market_manager_name", "marketing_phone", "marketing_email",
    "account_dept_name", "accounting_phone", "accounting_email",
    "sort_bucket", "notes" }

\* payload.get(key): a key the payload lacks reads as None
PayloadGet(payload, key) == IF key \in DOMAIN payload THEN payload[key] ELSE NoCell

StoreParams(payload) == [f \in StoreTextFields |-> _clean_text(PayloadGet(payload, f))]

\* A lookup that finds no store
StoreLookupMisses(db, customer_id, params) == None

StoreLookup(db, customer_id, params) ==
  LET found == {i \in 1..Len(db.stores) :
                  /\ db.stores[i].customer_id = customer_id
                  /\ COALESCE(db.stores[i].address_1, Some(<<>>)) = Some(params.address_1)
                  /\ COALESCE(db.stores[i].city, Some(<<>>)) = Some(params.city)
                  /\ COALESCE(db.stores[i].state, Some(<<>>)) = Some(params.state)}
  IN IF found = {} THEN None ELSE Some(CHOOSE i \in found : \A j \in found : i <= j)

InsertedStore(customer_id, params) ==
  [f \in StoreTextFields |-> NULLIF(params[f])] @@ [customer_id |-> customer_id]

OverwrittenStore(old, params) ==
  [f \in StoreTextFields |-> NULLIF(params[f])] @@ [customer_id |-> old.customer_id]

\* A merge that takes every incoming value, blank or not
MergedStoreClearing(old, params) ==
  [f \in StoreTextFields |-> NULLIF(params[f])] @@ [customer_id |-> old.customer_id]

MergedStore(old, params) ==
  [f \in StoreTextFields |-> COALESCE(NULLIF(params[f]), old[f])]
    @@ [customer_id |-> old.customer_id]

\* An upsert of a store that under create_only inserts nothing
_upsert_store_never_creating(ctx, customer_id, payload, upsert_policy) ==
  LET write(params, lookup) ==
        IF upsert_policy = "create_only"
        THEN [ctx EXCEPT !.summary = Bump(@, "stores_skipped_existing")]
        ELSE IF lookup = None
        THEN [ctx EXCEPT !.db.stores = Append(@, InsertedStore(customer_id, params)),
                         !.summary = Bump(@, "stores_created")]
        ELSE IF upsert_policy = "overwrite"
             THEN [ctx EXCEPT !.db.stores[lookup[1]] = OverwrittenStore(@, params),
                              !.summary = Bump(@, "stores_updated")]
        ELSE [ctx EXCEPT !.db.stores[lookup[1]] = MergedStore(@, params),
                         !.summary = Bump(@, "stores_updated")]
      find(params) == write(params, StoreLookup(ctx.db, customer_id, params))
  IN find(StoreParams(payload))

_upsert_store(ctx, customer_id, payload, upsert_policy) ==
  LET write(params, lookup) ==
        IF lookup = None
        THEN [ctx EXCEPT !.db.stores = Append(@, InsertedStore(customer_id, params)),
                         !.summary = Bump(@, "stores_created")]
        ELSE IF upsert_policy = "create_only"
             THEN [ctx EXCEPT !.summary = Bump(@, "stores_skipped_existing")]
        ELSE IF upsert_policy = "overwrite"
             THEN [ctx EXCEPT !.db.stores[lookup[1]] = OverwrittenStore(@, params),
                              !.summary = Bump(@, "stores_updated")]
        ELSE [ctx EXCEPT !.db.stores[lookup[1]] = MergedStore(@, params),
                         !.summary = Bump(@, "stores_updated")]
      find(params) == write(params, StoreLookup(ctx.db, customer_id, params))
  IN find(StoreParams(payload))

ProductLookup(db, customer_id, product_name) ==
  LET found == {i \in 1..Len(db.products) :
                  /\ db.products[i].customer_id = customer_id
                  /\ Lower(db.products[i].product_name) = Lower(product_name)}
  IN IF found = {} THEN None ELSE Some(CHOOSE i \in found : \A j \in found : i <= j)

\* p: [last_visit, action, status, next_action, last_contact, notes], the dates
\* None or Some(date), the rest strings
InsertedProduct(customer_id, product_name, p) ==
  [ customer_id |-> customer_id,
    product_name |-> product_name,
    last_visit |-> p.last_visit,
    action |-> NULLIF(p.action),
    status |-> NULLIF(p.status),
    next_action |-> NULLIF(p.next_action),
    last_contact |-> p.last_contact,
    notes |-> NULLIF(p.notes) ]

OverwrittenProduct(old, p) ==
  [ customer_id |-> old.customer_id,
    product_name |-> old.product_name,
    last_visit |-> p.last_visit,
    action |-> NULLIF(p.action),
    status |-> NULLIF(p.status),
    next_action |-> NULLIF(p.next_action),
    last_contact |-> p.last_contact,
    notes |-> NULLIF(p.notes) ]

MergedProduct(old, p) ==
  [ customer_id |-> old.customer_id,
    product_name |-> old.product_name,
    last_visit |-> COALESCE(p.last_visit, old.last_visit),
    action |-> COALESCE(NULLIF(p.action), old.action),
    status |-> COALESCE(NULLIF(p.status), old.status),
    next_action |-> COALESCE(NULLIF(p.next_action), old.next_action),
    last_contact |-> COALESCE(p.last_contact, old.last_contact),
    notes |-> COALESCE(NULLIF(p.notes), old.notes) ]

_upsert_product(ctx, customer_id, product_name, upsert_policy, p) ==
  LET write(lookup) ==
        IF lookup = None
        THEN [ctx EXCEPT
                !.db.products = Append(@, InsertedProduct(customer_id, product_name, p)),
                !.summary = Bump(@, "products_created")]
        ELSE IF upsert_policy = "create_only"
             THEN [ctx EXCEPT !.summary = Bump(@, "products_skipped_existing")]
        ELSE IF upsert_policy = "overwrite"
             THEN [ctx EXCEPT !.db.products[lookup[1]] = OverwrittenProduct(@, p),
                              !.summary = Bump(@, "products_updated")]
        ELSE [ctx EXCEPT !.db.products[lookup[1]] = MergedProduct(@, p),
                         !.summary = Bump(@, "products_updated")]
  IN write(ProductLookup(ctx.db, customer_id, product_name))

\* A write of a month entry that leaves an entry the session holds as it is under
\* every policy
UpsertMonthEntryKeeping(ctx, customer_id, year, month, planned_date, completed_manual, upsert_policy) ==
  LET key == <<customer_id, year, month>>
      entry == [planned_date |-> planned_date, completed_manual |-> completed_manual]
  IN IF key \in DOMAIN ctx.db.cvm_month_entries
     THEN [ctx EXCEPT !.summary = Bump(@, "cvm_entries_skipped_existing")]
     ELSE [ctx EXCEPT
             !.db.cvm_month_entries = (key :> entry) @@ @,
             !.summary = Bump(@, "cvm_entries_upserted")]

\* The plan-grid pass's write of one month entry (the INSERT under create_only, the
\* INSERT ... ON CONFLICT DO UPDATE otherwise)
UpsertMonthEntry(ctx, customer_id, year, month, planned_date, completed_manual, upsert_policy) ==
  LET key == <<customer_id, year, month>>
      entry == [planned_date |-> planned_date, completed_manual |-> completed_manual]
  IN IF upsert_policy = "create_only" /\ key \in DOMAIN ctx.db.cvm_month_entries
     THEN [ctx EXCEPT !.summary = Bump(@, "cvm_entries_skipped_existing")]
     ELSE [ctx EXCEPT
             !.db.cvm_month_entries = (key :> entry) @@ @,
             !.summary = Bump(@, "cvm_entries_upserted")]

\* An UPDATE of the sort bucket of every store of the customer
SetSortBucketOfAll(ctx, customer_id, sort_bucket) ==
  [ctx EXCEPT !.db.stores =
     [i \in 1..Len(@) |->
        IF @[i].customer_id = customer_id
        THEN [@[i] EXCEPT !.sort_bucket = COALESCE(NULLIF(sort_bucket), @)]
        ELSE @[i]]]

\* UPDATE stores SET sort_bucket = ... WHERE id = (the customer's lowest store id)
SetSortBucket(ctx, customer_id, sort_bucket) ==
  LET own == {i \in 1..Len(ctx.db.stores) : ctx.db.stores[i].customer_id = customer_id} IN
  IF own = {} THEN ctx
  ELSE LET first == CHOOSE i \in own : \A j \in own : i <= j IN
       [ctx EXCEPT !.db.stores[first].sort_bucket = COALESCE(NULLIF(sort_bucket), @)]

\* --------------------------------------------------------- sheet passes

LabelCustomer == <<"c", "u", "s", "t", "o", "m", "e", "r">>
LabelStore == <<"s", "t", "o", "r", "e">>

MissingCode == Msg("Skipped row: missing customer code.", <<>>)

NoNameMessage(cust_code) ==
  Msg("Customer '{0}' has no customer name; placeholder name may be used.", <<cust_code>>)

\* One iteration of a pass's row loop returns [ctx |-> ..., seen |-> ...]: the
\* context after the row and the pass's first-seen map.

\* 1) Get Data sheet -> customers + territory metadata.
RosterRow(ctx, seen, title, row_num, row, resolved_policy) ==
  LET upsert(reg, terr, cust_code, customer_name, kw) ==
        [ ctx |-> _upsert_customer(terr.ctx, cust_code, customer_name, terr.id,
                                   resolved_policy, kw).ctx,
          seen |-> reg.seen ]
      accept(reg, territory_name, cust_code, customer_name, kw) ==
        IF ~reg.ok
        THEN [ctx |-> [ctx EXCEPT !.summary = reg.summary], seen |-> reg.seen]
        ELSE upsert(reg,
                    _get_or_create_territory([ctx EXCEPT !.summary = reg.summary],
                                             territory_name),
                    cust_code, customer_name, kw)
      body(territory_name, group_name, group_2_iws, iws_code, cust_code, customer_name,
           old_value, old_name) ==
        IF cust_code = <<>> /\ customer_name = <<>> /\ ~_is_row_populated(row)
        THEN [ctx |-> ctx, seen |-> seen]
        ELSE IF cust_code = <<>>
             THEN [ ctx |-> [ctx EXCEPT !.summary =
                               _record_issue(@, "error", title, Some(row_num), MissingCode)],
                    seen |-> seen ]
        ELSE accept(_register_duplicate(
                      IF customer_name = <<>>
                      THEN _record_issue(ctx.summary, _validation_level(ctx.summary), title,
                                         Some(row_num), NoNameMessage(cust_code))
                      ELSE ctx.summary,
                      seen, cust_code, title, row_num, LabelCustomer),
                    territory_name, cust_code, customer_name,
                    [NoKw EXCEPT !.group_name = group_name, !.group_2_iws = group_2_iws,
                                 !.iws_code = iws_code, !.old_value = old_value,
                                 !.old_name = old_name])
  IN body(_clean_text(RowAt(row, 0)), _clean_text(RowAt(row, 1)), _clean_text(RowAt(row, 2)),
          _clean_text(RowAt(row, 3)), _clean_code(RowAt(row, 4)), _clean_text(RowAt(row, 5)),
          _clean_text(RowAt(row, 6)), _clean_text(RowAt(row, 7)))

\* The store columns of a Customer Details row, by 0-based position
DetailPayloadColumns ==
  [ address_1 |-> 5, address_2 |-> 6, city |-> 7, state |-> 8, postcode |-> 9,
    country |-> 10, main_contact |-> 11, owner_name |-> 12, owner_phone |-> 13,
    owner_email |-> 14, store_manager_name |-> 15, store_phone |-> 16,
    store_email |-> 17, market_manager_name |-> 18, marketing_phone |-> 19,
    marketing_email |-> 20, account_dept_name |-> 21, accounting_phone |-> 22,
    accounting_email |-> 23, notes |-> 24 ]

DetailPayload(row) ==
  [k \in DOMAIN DetailPayloadColumns |-> RowAt(row, DetailPayloadColumns[k])]

StoreKey(cust_code, payload) ==
  JoinWith(<< Lower(cust_code),
              Lower(_clean_text(PayloadGet(payload, "address_1"))),
              Lower(_clean_text(PayloadGet(payload, "city"))),
              Lower(_clean_text(PayloadGet(payload, "state"))) >>, <<"|">>)

\* a or b of two strings
OrText(a, b) == IF a # <<>> THEN a ELSE b

\* 2) Customer Details sheet -> stores and richer contact fields.
DetailRow(ctx, seen, title, row_num, row, resolved_policy) ==
  LET store(cust, reg, payload) ==
        IF ~reg.ok
        THEN [ctx |-> [cust.ctx EXCEPT !.summary = reg.summary], seen |-> reg.seen]
        ELSE [ ctx |-> _upsert_store([cust.ctx EXCEPT !.summary = reg.summary], cust.id,
                                     payload, resolved_policy),
               seen |-> reg.seen ]
      after_customer(cust, cust_code, payload) ==
        IF cust.ctx.exc # "" THEN [ctx |-> cust.ctx, seen |-> seen]
        ELSE IF \E k \in DOMAIN payload : _clean_text(payload[k]) # <<>>
             THEN store(cust,
                        _register_duplicate(cust.ctx.summary, seen,
                                            StoreKey(cust_code, payload), title, row_num,
                                            LabelStore),
                        payload)
             ELSE [ctx |-> cust.ctx, seen |-> seen]
      customer(terr, cust_code, customer_name) ==
        after_customer(_upsert_customer(terr.ctx, cust_code, customer_name, terr.id,
                                        resolved_policy, NoKw),
                       cust_code, DetailPayload(row))
      body(cust_code, territory_name, customer_name) ==
        IF cust_code = <<>>
        THEN IF _is_row_populated(row)
             THEN [ ctx |-> [ctx EXCEPT !.summary =
                               _record_issue(@, "error", title, Some(row_num), MissingCode)],
                    seen |-> seen ]
             ELSE [ctx |-> ctx, seen |-> seen]
        ELSE customer(_get_or_create_territory(ctx, territory_name), cust_code,
                      customer_name)
  IN body(OrText(_clean_code(RowAt(row, 0)), _clean_code(RowAt(row, 2))),
          _clean_text(RowAt(row, 3)),
          OrText(_extract_name(RowAt(row, 1)), _extract_name(RowAt(row, 2))))

MONTH_SHORT ==
  << <<"J", "A", "N">>,
     <<"F", "E", "B">>,
     <<"M", "A", "R">>,
     <<"A", "P", "R">>,
     <<"M", "A", "Y">>,
     <<"J", "U", "N">>,
     <<"J", "U", "L">>,
     <<"A", "U", "G">>,
     <<"S", "E", "P">>,
     <<"O", "C", "T">>,
     <<"N", "O", "V">>,
     <<"D", "E", "C">> >>

\* The label texts of the header resolver
L_DOOR_COUNT == <<"D", "O", "O", "R", " ", "C", "O", "U", "N", "T">>
L_TERRITORY == <<"T", "E", "R", "R", "I", "T", "O", "R", "Y">>
L_CUST_CODE == <<"C", "U", "S", "T", " ", "C", "O", "D", "E">>
L_CUSTOMER_CODE == <<"C", "U", "S", "T", "O", "M", "E", "R", " ", "C", "O", "D", "E">>
L_CUSTOMER_NUMBER == <<"C", "U", "S", "T", "O", "M", "E", "R", " ", "N", "U", "M", "B", "E", "R">>
L_SORT == <<"S", "O", "R", "T">>
L_CUSTOMER_NAME == <<"C", "U", "S", "T", "O", "M", "E", "R", " ", "N", "A", "M", "E">>
L_TRADE_NAME == <<"T", "R", "A", "D", "E", " ", "N", "A", "M", "E">>
L_NOTES_COMMENTS == <<"N", "O", "T", "E", "S", " ", "C", "O", "M", "M", "E", "N", "T", "S">>
L_NOTES == <<"N", "O", "T", "E", "S">>
L_COMMENTS == <<"C", "O", "M", "M", "E", "N", "T", "S">>
L_LAST_VISIT == <<"L", "A", "S", "T", " ", "V", "I", "S", "I", "T">>
L_DATE_OF_LAST_COMPLETED_VISIT == <<"D", "A", "T", "E", " ", "O", "F", " ", "L", "A", "S", "T", " ", "C", "O", "M", "P", "L", "E", "T", "E", "D", " ", "V", "I", "S", "I", "T">>
L_DATE_OF_LAST_VISIT == <<"D", "A", "T", "E", " ", "O", "F", " ", "L", "A", "S", "T", " ", "V", "I", "S", "I", "T">>
L_ACTION == <<"A", "C", "T", "I", "O", "N">>
L_PLANNED == <<"P", "L", "A", "N", "N", "E", "D", " ">>
L_COMPLETED == <<"C", "O", "M", "P", "L", "E", "T", "E", "D", " ">>
L_COMPLETE == <<"C", "O", "M", "P", "L", "E", "T", "E", " ">>
L_DONE == <<"D", "O", "N", "E", " ">>
L_PRODUCT == <<"P", "r", "o", "d", "u", "c", "t", " ">>
L_LAST_CONTACT == <<" ", "L", "A", "S", "T", " ", "C", "O", "N", "T", "A", "C", "T">>

OrElse(found, fallback) == IF found = None THEN fallback ELSE found[1]

\* header_row: the cleaned cells of row 3, one per column up to max_col
_resolve_cvm_column_map(header_row, max_col) ==
  LET resolve(labels) ==
        LET planned(m) == {i \in 1..Len(labels) : labels[i] = L_PLANNED \o MONTH_SHORT[m]}
            completed(m) == {i \in 1..Len(labels) :
                               labels[i] \in
                                 { L_COMPLETED \o MONTH_SHORT[m], L_COMPLETE \o MONTH_SHORT[m],
                                   L_DONE \o MONTH_SHORT[m] }}
            last(S) == CHOOSE i \in S : \A j \in S : j <= i
            legacy_planned_col(m) == 11 + (m - 1) * 2
            legacy_completed_col(m) == legacy_planned_col(m) + 1
        IN [ door_count_col |-> OrElse(FindLabel(labels, {L_DOOR_COUNT}), 1),
             territory_col |-> OrElse(FindLabel(labels, {L_TERRITORY}), 2),
             cust_code_col |->
               OrElse(FindLabel(labels, {L_CUST_CODE, L_CUSTOMER_CODE, L_CUSTOMER_NUMBER}), 3),
             sort_col |-> OrElse(FindLabel(labels, {L_SORT}), 4),
             customer_name_col |-> OrElse(FindLabel(labels, {L_CUSTOMER_NAME}), 5),
             trade_name_col |-> OrElse(FindLabel(labels, {L_TRADE_NAME}), 6),
             notes_col |-> OrElse(FindLabel(labels, {L_NOTES_COMMENTS, L_NOTES, L_COMMENTS}), 7),
             month_cols |->
               [m \in 1..12 |->
                  [ planned_col |->
                      IF planned(m) # {} THEN Some(last(planned(m)))
                      ELSE IF legacy_planned_col(m) <= max_col
                           THEN Some(legacy_planned_col(m))
                           ELSE None,
                    completed_col |->
                      IF completed(m) # {} THEN Some(last(completed(m)))
                      ELSE IF legacy_completed_col(m) <= max_col
                           THEN Some(legacy_completed_col(m))
                           ELSE None ]] ]
  IN resolve(NormalizedLabels(header_row))

\* The body of the plan-grid pass's loop over the months, from month_idx to 12
RECURSIVE CvmMonths(_, _, _, _, _, _, _, _, _)
CvmMonths(ctx, month_idx, row, title, row_num, cvm_columns, customer_id, calendar_year, resolved_policy) ==
  IF month_idx > 12 THEN ctx
  ELSE
    LET write(planned, requested) ==
          LET ignored == requested /\ planned.val = None
              logged ==
                IF ignored
                THEN _record_issue(planned.summary, _validation_level(planned.summary),
                                   title, Some(row_num),
                                   Msg("COMPLETED {0} ignored because planned date is missing or invalid.",
                                       <<MONTH_SHORT[month_idx]>>))
                ELSE planned.summary
              completed_manual == IF ignored THEN FALSE ELSE requested
          IN IF planned.val = None /\ ~completed_manual
             THEN [ctx EXCEPT !.summary = logged]
             ELSE UpsertMonthEntry([ctx EXCEPT !.summary = logged], customer_id,
                                   calendar_year, month_idx, planned.val, completed_manual,
                                   resolved_policy)
    IN CvmMonths(write(_to_date_with_issue(
                         _column_value(row, cvm_columns.month_cols[month_idx].planned_col),
                         ctx.summary, title, row_num, L_PLANNED \o MONTH_SHORT[month_idx]),
                       _to_bool(_column_value(row,
                                              cvm_columns.month_cols[month_idx].completed_col))),
                 month_idx + 1, row, title, row_num, cvm_columns, customer_id,
                 calendar_year, resolved_policy)

\* 3) CVM sheet -> monthly planning dates and completion flags.
CvmRow(ctx, seen, title, row_num, row, cvm_columns, calendar_year, resolved_policy) ==
  LET row_signal_values ==
        << _column_value(row, Some(cvm_columns.territory_col)),
           _column_value(row, Some(cvm_columns.customer_name_col)),
           _column_value(row, Some(cvm_columns.trade_name_col)),
           _column_value(row, Some(cvm_columns.notes_col)) >>
        \o [i \in 1..24 |->
              IF i % 2 = 1
              THEN _column_value(row, cvm_columns.month_cols[(i + 1) \div 2].planned_col)
              ELSE _column_value(row, cvm_columns.month_cols[i \div 2].completed_col)]
      months(cust, reg, sort_bucket) ==
        IF cust.ctx.exc # "" THEN [ctx |-> cust.ctx, seen |-> reg.seen]
        ELSE [ ctx |-> CvmMonths(IF sort_bucket # <<>>
                                 THEN SetSortBucket(cust.ctx, cust.id, sort_bucket)
                                 ELSE cust.ctx,
                                 1, row, title, row_num, cvm_columns, cust.id, calendar_year,
                                 resolved_policy),
               seen |-> reg.seen ]
      customer(reg, terr, cust_code, customer_name, kw, sort_bucket) ==
        months(_upsert_customer(terr.ctx, cust_code, customer_name, terr.id, resolved_policy,
                                kw),
               reg, sort_bucket)
      accept(reg, cust_code, territory_name, customer_name, kw, sort_bucket) ==
        IF ~reg.ok
        THEN [ctx |-> [ctx EXCEPT !.summary = reg.summary], seen |-> reg.seen]
        ELSE customer(reg,
                      _get_or_create_territory([ctx EXCEPT !.summary = reg.summary],
                                               territory_name),
                      cust_code, customer_name, kw, sort_bucket)
      body(counted, door_count, cust_code, territory_name, customer_name, trade_name,
           cvm_notes, sort_bucket) ==
        IF cust_code = <<>>
        THEN IF _has_meaningful_values(row_signal_values)
             THEN [ ctx |-> [ctx EXCEPT !.summary =
                               _record_issue(counted, "error", title, Some(row_num),
                                             MissingCode)],
                    seen |-> seen ]
             ELSE [ctx |-> [ctx EXCEPT !.summary = counted], seen |-> seen]
        ELSE accept(_register_duplicate(counted, seen, cust_code, title, row_num,
                                        LabelCustomer),
                    cust_code, territory_name, customer_name,
                    [NoKw EXCEPT !.trade_name = trade_name, !.door_count = door_count.val,
                                 !.cvm_notes = cvm_notes],
                    sort_bucket)
      count(door_count, door_count_text) ==
        IF door_count.exc # ""
        THEN [ctx |-> [ctx EXCEPT !.exc = door_count.exc], seen |-> seen]
        ELSE body(IF door_count.val = None /\ door_count_text # <<>>
                  THEN _record_issue(ctx.summary, _validation_level(ctx.summary), title,
                                     Some(row_num),
                                     Msg("Invalid Door Count '{0}'; value ignored.",
                                         <<door_count_text>>))
                  ELSE ctx.summary,
                  door_count,
                  _clean_code(_column_value(row, Some(cvm_columns.cust_code_col))),
                  _clean_text(_column_value(row, Some(cvm_columns.territory_col))),
                  _clean_text(_column_value(row, Some(cvm_columns.customer_name_col))),
                  _clean_text(_column_value(row, Some(cvm_columns.trade_name_col))),
                  _clean_text(_column_value(row, Some(cvm_columns.notes_col))),
                  _clean_text(_column_value(row, Some(cvm_columns.sort_col))))
  IN count(_to_int(_column_value(row, Some(cvm_columns.door_count_col))),
           _clean_text(_column_value(row, Some(cvm_columns.door_count_col))))

\* As _find_database_column, over labels already normalized
FindDatabaseLabel(field_labels, product_labels, candidates) ==
  LET or_product(found) ==
        IF found # None THEN found ELSE FindLabel(product_labels, candidates)
  IN or_product(FindLabel(field_labels, candidates))

_find_database_column(field_labels, product_labels, candidates) ==
  FindDatabaseLabel(NormalizedLabels(field_labels), NormalizedLabels(product_labels),
                    candidates)

\* sheet.cell(row, column).value of a Database row: a column past the row's last
\* cell reads as None
_cell_value(row, col_idx) ==
  IF col_idx <= 0 \/ col_idx > Len(row) THEN NoCell ELSE row[col_idx]

\* product_labels, field_labels: the cleaned cells of rows 3 and 4
_resolve_database_column_map(product_labels, field_labels) ==
  LET resolve(fields, products) ==
        [ territory_col |-> OrElse(FindDatabaseLabel(fields, products, {L_TERRITORY}), 21),
          cust_code_col |->
            OrElse(FindDatabaseLabel(fields, products,
                                     {L_CUST_CODE, L_CUSTOMER_CODE, L_CUSTOMER_NUMBER}), 22),
          customer_name_col |->
            OrElse(FindDatabaseLabel(fields, products, {L_CUSTOMER_NAME}), 23),
          trade_name_col |-> OrElse(FindDatabaseLabel(fields, products, {L_TRADE_NAME}), 24),
          last_visit_col |->
            OrElse(FindDatabaseLabel(fields, products,
                                     {L_LAST_VISIT, L_DATE_OF_LAST_COMPLETED_VISIT,
                                      L_DATE_OF_LAST_VISIT}), 25) ]
  IN resolve(NormalizedLabels(field_labels), NormalizedLabels(product_labels))

\* The (column, product name) pairs of the ACTION-led column groups, scanning the
\* field labels from column i on; groups holds those found so far
RECURSIVE ProductGroups(_, _, _, _, _)
ProductGroups(field_labels, product_labels, max_col, i, groups) ==
  IF i > Len(field_labels) THEN groups
  ELSE IF StartsWith(Upper(field_labels[i]), L_ACTION) /\ i + 4 <= max_col
       THEN ProductGroups(field_labels, product_labels, max_col, i + 1,
                          Append(groups,
                                 [ col |-> i,
                                   name |-> IF product_labels[i] # <<>> THEN product_labels[i]
                                            ELSE L_PRODUCT \o NatStr(Len(groups) + 1) ]))
       ELSE ProductGroups(field_labels, product_labels, max_col, i + 1, groups)

\* The loop over a Database row's product groups, from group g on
RECURSIVE DatabaseProducts(_, _, _, _, _, _, _, _, _)
DatabaseProducts(ctx, g, product_groups, row, title, row_idx, customer_id, last_visit, resolved_policy) ==
  IF g > Len(product_groups) THEN ctx
  ELSE
    LET write(action, status, next_action, last_contact, notes) ==
          IF /\ action = <<>> /\ status = <<>> /\ next_action = <<>>
             /\ last_contact.val = None /\ notes = <<>> /\ last_visit = None
          THEN [ctx EXCEPT !.summary = last_contact.summary]
          ELSE _upsert_product([ctx EXCEPT !.summary = last_contact.summary], customer_id,
                               product_groups[g].name, resolved_policy,
                               [ last_visit |-> last_visit, action |-> action,
                                 status |-> status, next_action |-> next_action,
                                 last_contact |-> last_contact.val, notes |-> notes ])
    IN DatabaseProducts(
         write(_clean_text(_cell_value(row, product_groups[g].col)),
               _clean_text(_cell_value(row, product_groups[g].col + 1)),
               _clean_text(_cell_value(row, product_groups[g].col + 2)),
               _to_date_with_issue(_cell_value(row, product_groups[g].col + 3), ctx.summary,
                                   title, row_idx, product_groups[g].name \o L_LAST_CONTACT),
               _clean_text(_cell_value(row, product_groups[g].col + 4))),
         g + 1, product_groups, row, title, row_idx, customer_id, last_visit,
         resolved_policy)

GroupCells(row, product_groups) ==
  [i \in 1..(5 * Len(product_groups)) |->
     _cell_value(row, product_groups[((i - 1) \div 5) + 1].col + ((i - 1) % 5))]

\* 4) Database sheet -> product interaction snapshot(s).
DatabaseRow(ctx, seen, title, row_idx, row, database_columns, product_groups, resolved_policy) ==
  LET row_signal_values ==
        << _cell_value(row, database_columns.territory_col),
           _cell_value(row, database_columns.customer_name_col),
           _cell_value(row, database_columns.trade_name_col),
           _cell_value(row, database_columns.last_visit_col) >>
          \o GroupCells(row, product_groups)
      products(reg, cust, last_visit) ==
        IF cust.ctx.exc # "" THEN [ctx |-> cust.ctx, seen |-> reg.seen]
        ELSE [ ctx |-> DatabaseProducts(cust.ctx, 1, product_groups, row, title, row_idx,
                                        cust.id, last_visit.val, resolved_policy),
               seen |-> reg.seen ]
      customer(reg, terr, cust_code, customer_name, trade_name, last_visit) ==
        products(reg,
                 _upsert_customer(terr.ctx, cust_code, customer_name, terr.id,
                                  resolved_policy, [NoKw EXCEPT !.trade_name = trade_name]),
                 last_visit)
      accept(reg, cust_code, territory_name, customer_name, trade_name, last_visit) ==
        IF ~reg.ok
        THEN [ctx |-> [ctx EXCEPT !.summary = reg.summary], seen |-> reg.seen]
        ELSE customer(reg,
                      _get_or_create_territory([ctx EXCEPT !.summary = reg.summary],
                                               territory_name),
                      cust_code, customer_name, trade_name, last_visit)
      body(cust_code, territory_name, customer_name, trade_name, last_visit) ==
        IF cust_code = <<>>
        THEN IF _has_meaningful_values(row_signal_values)
             THEN [ ctx |-> [ctx EXCEPT !.summary =
                               _record_issue(last_visit.summary, "error", title,
                                             Some(row_idx), MissingCode)],
                    seen |-> seen ]
             ELSE [ctx |-> [ctx EXCEPT !.summary = last_visit.summary], seen |-> seen]
        ELSE accept(_register_duplicate(last_visit.summary, seen, cust_code, title, row_idx,
                                        LabelCustomer),
                    cust_code, territory_name, customer_name, trade_name, last_visit)
  IN body(_clean_code(_cell_value(row, database_columns.cust_code_col)),
          _clean_text(_cell_value(row, database_columns.territory_col)),
          _clean_text(_cell_value(row, database_columns.customer_name_col)),
          _clean_text(_cell_value(row, database_columns.trade_name_col)),
          _to_date_with_issue(_cell_value(row, database_columns.last_visit_col), ctx.summary,
                              title, row_idx, L_LAST_VISIT))

\* ------------------------------------------------------------- request

W_MERGE == <<"m", "e", "r", "g", "e">>
W_CREATE_ONLY == <<"c", "r", "e", "a", "t", "e", "_", "o", "n", "l", "y">>
W_OVERWRITE == <<"o", "v", "e", "r", "w", "r", "i", "t", "e">>
W_STANDARD == <<"s", "t", "a", "n", "d", "a", "r", "d">>
W_STRICT == <<"s", "t", "r", "i", "c", "t">>
W_LAST_WINS == <<"l", "a", "s", "t", "_", "w", "i", "n", "s">>
W_FIRST_WINS == <<"f", "i", "r", "s", "t", "_", "w", "i", "n", "s">>
W_ERROR == <<"e", "r", "r", "o", "r">>
W_PREVIEW == <<"p", "r", "e", "v", "i", "e", "w">>
W_APPLY == <<"a", "p", "p", "l", "y">>

\* The _normalize_* functions return the policy's name, or "invalid" where the code
\* raises HTTPException(400)
_normalize_upsert_policy(upsert_policy) ==
  LET policy == Lower(CleanStr(upsert_policy)) IN
  CASE policy \in {<<>>, W_MERGE} -> "merge"
    [] policy = W_CREATE_ONLY -> "create_only"
    [] policy = W_OVERWRITE -> "overwrite"
    [] OTHER -> "invalid"

_normalize_validation_mode(validation_mode) ==
  LET mode == Lower(CleanStr(validation_mode)) IN
  CASE mode \in {<<>>, W_STANDARD} -> "standard"
    [] mode = W_STRICT -> "strict"
    [] OTHER -> "invalid"

_normalize_duplicate_policy(duplicate_policy) ==
  LET policy == Lower(CleanStr(duplicate_policy)) IN
  CASE policy \in {<<>>, W_LAST_WINS} -> "last_wins"
    [] policy = W_FIRST_WINS -> "first_wins"
    [] policy = W_ERROR -> "error"
    [] OTHER -> "invalid"

\* import_mode.strip().lower() or "apply"
ImportMode(import_mode) ==
  LET mode == Lower(Strip(import_mode)) IN
  CASE mode \in {<<>>, W_APPLY} -> "apply"
    [] mode = W_PREVIEW -> "preview"
    [] OTHER -> "invalid"

AllowedExtensions ==
  { <<".", "x", "l", "s", "x">>, <<".", "x", "l", "s", "m">>, <<".", "x", "l", "t", "m">> }

\* [val |-> None or Some(int), exc |-> "" or "HTTPException"]
parse_optional_int(value) ==
  LET cleaned == Strip(value) IN
  IF cleaned = <<>> THEN [val |-> None, exc |-> ""]
  ELSE IF IntLiteral(cleaned)
       THEN [ val |-> Some(IF cleaned[1] = "-" THEN -NatVal(Tail(cleaned))
                           ELSE IF cleaned[1] = "+" THEN NatVal(Tail(cleaned))
                           ELSE NatVal(cleaned)),
              exc |-> "" ]
       ELSE [val |-> None, exc |-> "HTTPException"]

\* ------------------------------------------------------------ workbook

FirstOf(hits) == IF hits = {} THEN None ELSE Some(CHOOSE i \in hits : \A j \in hits : i <= j)

\* The index in workbook.sheetnames of the sheet found, or None
_sheet_by_prefix(sheets, prefix) ==
  LET find(target) ==
        FirstOf({i \in 1..Len(sheets) : StartsWith(Lower(Strip(sheets[i].name)), target)})
  IN find(Lower(Strip(prefix)))

_sheet_by_exact(sheets, wanted) ==
  LET find(target) == FirstOf({i \in 1..Len(sheets) : Lower(Strip(sheets[i].name)) = target})
  IN find(Lower(Strip(wanted)))

N_GET_DATA == <<"G", "e", "t", " ", "D", "a", "t", "a", " ", "-">>
N_CUSTOMER_DETAILS == <<"C", "u", "s", "t", "o", "m", "e", "r", " ", "D", "e", "t", "a", "i", "l", "s">>
N_CVM == <<"C", "V", "M">>
N_DATABASE == <<"D", "a", "t", "a", "b", "a", "s", "e">>

MONTH_NAMES ==
  << <<"J", "A", "N", "U", "A", "R", "Y">>,
     <<"F", "E", "B", "R", "U", "A", "R", "Y">>,
     <<"M", "A", "R", "C", "H">>,
     <<"A", "P", "R", "I", "L">>,
     <<"M", "A", "Y">>,
     <<"J", "U", "N", "E">>,
     <<"J", "U", "L", "Y">>,
     <<"A", "U", "G", "U", "S", "T">>,
     <<"S", "E", "P", "T", "E", "M", "B", "E", "R">>,
     <<"O", "C", "T", "O", "B", "E", "R">>,
     <<"N", "O", "V", "E", "M", "B", "E", "R">>,
     <<"D", "E", "C", "E", "M", "B", "E", "R">> >>

YearInRange(year_value) ==
  IF 2000 <= year_value /\ year_value <= 2100 THEN Some(year_value) ELSE None

\* A bool is an int to isinstance: int(True) is 1
_year_from_value(value) ==
  LET of_text(raw) == IF IsDigitStr(raw) THEN YearInRange(NatVal(raw)) ELSE None IN
  CASE value.t \in {"int", "float"} -> YearInRange(value.n)
    [] value.t = "bool" -> YearInRange(IF value.b THEN 1 ELSE 0)
    [] OTHER -> of_text(_clean_text(value))

\* The first year found at R4 of the sheets at positions order[k..]
RECURSIVE FirstYear(_, _, _)
FirstYear(sheets, order, k) ==
  LET or_next(year_value) ==
        IF year_value # None THEN year_value ELSE FirstYear(sheets, order, k + 1)
  IN IF k > Len(order) THEN None
     ELSE IF order[k] = None THEN FirstYear(sheets, order, k + 1)
     ELSE or_next(_year_from_value(sheets[order[k][1]].r4))

\* The year of the first sheet, in workbook order, whose R4 holds one
YearInWorkbookOrder(sheets) == FirstYear(sheets, [i \in 1..Len(sheets) |-> Some(i)], 1)

_resolve_calendar_year(sheets) ==
  LET or_any(by_month) ==
        IF by_month # None THEN by_month
        ELSE FirstYear(sheets, [i \in 1..Len(sheets) |-> Some(i)], 1)
  IN or_any(FirstYear(sheets, [m \in 1..12 |-> _sheet_by_exact(sheets, MONTH_NAMES[m])], 1))

\* ------------------------------------------------------ bounded inputs

\* The rows one request reads, over all four sheets
MaxRows == 3

\* datetime.utcnow().year
UtcNowYear == 2026

Sheet(name, r4) == [name |-> name, r4 |-> r4]

NoRows == [get_data |-> <<>>, details |-> <<>>, cvm |-> <<>>, database |-> <<>>]

\* A workbook: its sheets in order (name and the R4 cell), row 3 of the CVM sheet,
\* rows 3 and 4 of the Database sheet, and the data rows read so far from each sheet.
WorkbookFull ==
  [ sheets |-> << Sheet(<<"G", "e", "t", " ", "D", "a", "t", "a", " ", "-", "S">>, NoCell),
                  Sheet(<<"C", "u", "s", "t", "o", "m", "e", "r", " ", "D", "e", "t", "a", "i", "l", "s", " ">>, NoCell),
                  Sheet(<<" ", "C", "V", "M">>, NoCell),
                  Sheet(<<"J", "A", "N", "U", "A", "R", "Y">>, IntCell(2026)),
                  Sheet(<<"D", "a", "t", "a", "b", "a", "s", "e">>, NoCell) >>,
    cvm_row3 |-> << StrCell(<<"D", "o", "o", "r", " ", "C", "o", "u", "n", "t">>), StrCell(<<"T", "E", "R", "R", "I", "T", "O", "R", "Y">>), StrCell(<<"C", "u", "s", "t", " ", "C", "o", "d", "e">>), StrCell(<<"S", "O", "R", "T">>), StrCell(<<"C", "u", "s", "t", "o", "m", "e", "r", " ", "N", "a", "m", "e">>), StrCell(<<"T", "R", "A", "D", "E", " ", "N", "A", "M", "E">>), StrCell(<<"N", "o", "t", "e", "s", "/", "C", "o", "m", "m", "e", "n", "t", "s">>), StrCell(<<"P", "L", "A", "N", "N", "E", "D", " ", "J", "A", "N">>), StrCell(<<"C", "O", "M", "P", "L", "E", "T", "E", "D", " ", "J", "A", "N">>) >>,
    database_row3 |-> << NoCell, NoCell, NoCell, StrCell(<<"P">>), NoCell, NoCell, NoCell, NoCell >>,
    database_row4 |-> << StrCell(<<"C", "u", "s", "t", " ", "C", "o", "d", "e">>), StrCell(<<"C", "u", "s", "t", "o", "m", "e", "r", " ", "N", "a", "m", "e">>), StrCell(<<"L", "a", "s", "t", " ", "V", "i", "s", "i", "t">>), StrCell(<<"A", "C", "T", "I", "O", "N">>), StrCell(<<"S", "T", "A", "T", "U", "S">>), StrCell(<<"N", "E", "X", "T", " ", "A", "C", "T", "I", "O", "N">>), StrCell(<<"L", "A", "S", "T", " ", "C", "O", "N", "T", "A", "C", "T">>), StrCell(<<"N", "O", "T", "E", "S">>) >>,
    rows |-> NoRows ]

\* No Customer Details, CVM or month sheet, and a Database sheet without an ACTION label
WorkbookPartial ==
  [ sheets |-> << Sheet(<<"g", "e", "t", " ", "d", "a", "t", "a", " ", "-", " ", "2">>, NoCell),
                  Sheet(<<"D", "A", "T", "A", "B", "A", "S", "E">>, StrCell(<<"x">>)) >>,
    cvm_row3 |-> <<>>,
    database_row3 |-> <<NoCell>>,
    database_row4 |-> << StrCell(<<"C", "u", "s", "t", " ", "C", "o", "d", "e">>) >>,
    rows |-> NoRows ]

WorkbookOther ==
  [ sheets |-> << Sheet(<<"S", "h", "e", "e", "t", "1">>, NoCell) >>,
    cvm_row3 |-> <<>>, database_row3 |-> <<>>, database_row4 |-> <<>>,
    rows |-> NoRows ]

\* No Get Data, Customer Details or month sheet: the CVM and Database sheets of
\* WorkbookFull alone
WorkbookPlanOnly ==
  [ WorkbookFull EXCEPT
      !.sheets = << Sheet(<<"C", "V", "M">>, NoCell),
                    Sheet(<<"D", "a", "t", "a", "b", "a", "s", "e">>, NoCell) >> ]

Workbooks == {WorkbookFull, WorkbookPartial, WorkbookOther}

\* Sheets beside the CVM sheet that may hold a year at R4: two month sheets,
\* named as _sheet_by_exact accepts them, and one other sheet
YearSheetNames == { <<"J", "A", "N", "U", "A", "R", "Y">>, <<"m", "a", "r", "c", "h", " ">>, <<"N", "o", "t", "e", "s">> }

YearCells == { NoCell, IntCell(2030), StrCell(<<"2", "0", "3", "1">>), IntCell(1999) }

\* The CVM sheet at position at among two of the other sheets
SheetsAround(at, cvm, first, second) ==
  CASE at = 1 -> <<cvm, first, second>>
    [] at = 2 -> <<first, cvm, second>>
    [] at = 3 -> <<first, second, cvm>>

\* WorkbookFull's CVM sheet amid two sheets of distinct names, each sheet with
\* or without a year at R4
YearWorkbooks ==
  { [ WorkbookFull EXCEPT
        !.sheets = SheetsAround(at, Sheet(<<"C", "V", "M">>, r4[3]),
                                Sheet(names[1], r4[1]), Sheet(names[2], r4[2])) ] :
      at \in {1, 3},
      names \in { n \in YearSheetNames \X YearSheetNames : n[1] # n[2] },
      r4 \in YearCells \X YearCells \X {NoCell, IntCell(2032)} }

\* The workbooks of the runs that look at the passes one by one
KnownWorkbooks == Workbooks \cup {WorkbookPlanOnly}

\* Get Data rows: territory, group, group 2, IWS code, customer code, name, old value, old name
GetDataRows ==
  { << StrCell(<<"T">>), StrCell(<<"G">>), NoCell, NoCell, StrCell(<<"C", "1">>), StrCell(<<"A">>), NoCell, NoCell >>,
    << NoCell, StrCell(<<"H">>), NoCell, NoCell, StrCell(<<" ", "C", "1", " ">>), NoCell, NoCell, StrCell(<<"O">>) >>,
    << StrCell(<<"T">>), NoCell, NoCell, NoCell, NoCell, NoCell, NoCell, NoCell >>,
    << NoCell, NoCell, NoCell, NoCell, NoCell, NoCell, NoCell, NoCell >> }

\* Customer Details rows: code, name, alternate code/name, territory, -, address 1,
\* address 2, city
DetailsRows ==
  { << StrCell(<<"C", "1">>), StrCell(<<"A">>), NoCell, NoCell, NoCell, StrCell(<<"S">>), NoCell, NoCell >>,
    << StrCell(<<"C", "1">>), StrCell(<<"B">>), NoCell, NoCell, NoCell, StrCell(<<"S">>), StrCell(<<"U">>), NoCell >>,
    << StrCell(<<"C", "1">>), NoCell, NoCell, StrCell(<<"W">>), NoCell, NoCell, NoCell, NoCell >>,
    << NoCell, StrCell(<<"A">>), NoCell, NoCell, NoCell, NoCell, NoCell, NoCell >> }

\* CVM rows under WorkbookFull's header: door count, territory, code, sort, name,
\* trade name, notes, PLANNED JAN, COMPLETED JAN
CvmRows ==
  { << IntCell(3), NoCell, StrCell(<<"C", "1">>), StrCell(<<"X">>), StrCell(<<"A">>), NoCell, NoCell, DateTimeCell(2026, 1, 5), BoolCell(TRUE) >>,
    << NoCell, NoCell, StrCell(<<"C", "1">>), NoCell, NoCell, StrCell(<<"R">>), NoCell, StrCell(<<"b", "a", "d">>), StrCell(<<"y", "e", "s">>) >>,
    << NoCell, StrCell(<<"T">>), NoCell, NoCell, NoCell, NoCell, NoCell, NoCell, NoCell >>,
    << StrCell(<<"-", "-", "5">>), NoCell, StrCell(<<"C", "1">>), NoCell, NoCell, NoCell, NoCell, NoCell, NoCell >> }

\* Database rows under WorkbookFull's labels: code, name, last visit, then the
\* product's ACTION, STATUS, NEXT ACTION, LAST CONTACT, NOTES
DatabaseRows ==
  { << StrCell(<<"C", "1">>), StrCell(<<"A">>), DateCell(2026, 1, 2), StrCell(<<"K">>), NoCell, NoCell, NoCell, NoCell >>,
    << StrCell(<<"C", "1">>), NoCell, NoCell, NoCell, StrCell(<<"Z">>), NoCell, StrCell(<<"b", "a", "d">>), NoCell >>,
    << NoCell, StrCell(<<"A">>), NoCell, NoCell, NoCell, NoCell, NoCell, NoCell >> }

\* Form fields of the request; content is "workbook", "unreadable" or "empty"
Request(import_mode, upsert_policy, validation_mode, duplicate_policy, year_override) ==
  [ filename |-> <<"w", ".", "x", "l", "s", "x">>,
    content |-> "workbook",
    import_mode |-> import_mode,
    upsert_policy |-> upsert_policy,
    validation_mode |-> validation_mode,
    duplicate_policy |-> duplicate_policy,
    year_override |-> year_override ]

\* Every combination of the policies in apply mode, and previews of the default
\* and of the blocking policies
PolicyRequests ==
  { Request(W_APPLY, u, v, d, <<>>) :
      u \in {W_MERGE, W_CREATE_ONLY, W_OVERWRITE},
      v \in {W_STANDARD, W_STRICT}, d \in {W_LAST_WINS, W_FIRST_WINS, W_ERROR} }
  \cup { Request(W_PREVIEW, W_MERGE, v, d, <<>>) :
           v \in {W_STANDARD, W_STRICT}, d \in {W_LAST_WINS, W_ERROR} }

DefaultRequest == Request(W_APPLY, W_MERGE, W_STANDARD, W_LAST_WINS, <<>>)

OtherRequests ==
  { Request(<<" ", "P", "r", "e", "v", "i", "e", "w">>, <<>>, <<" ", "S", "T", "R", "I", "C", "T">>,
            <<>>, <<" ", "2", "0", "2", "7">>),
    Request(<<"b", "o", "t", "h">>, W_MERGE, W_STANDARD, W_LAST_WINS, <<>>),
    Request(W_APPLY, W_MERGE, W_STANDARD, W_LAST_WINS, <<"1", "9", "9", "9">>),
    Request(W_APPLY, W_MERGE, W_STANDARD, W_LAST_WINS, <<"x">>),
    Request(W_APPLY, <<"u", "p", "s", "e", "r", "t">>, W_STANDARD, W_LAST_WINS, <<>>),
    Request(W_APPLY, W_MERGE, <<"l", "a", "x">>, W_LAST_WINS, <<>>),
    Request(W_APPLY, W_MERGE, W_STANDARD, <<"a", "n", "y">>, <<>>),
    [DefaultRequest EXCEPT !.filename = <<"w", ".", "c", "s", "v">>],
    [DefaultRequest EXCEPT !.filename = <<>>],
    [DefaultRequest EXCEPT !.content = "empty"],
    [DefaultRequest EXCEPT !.content = "unreadable"],
    [DefaultRequest EXCEPT !.content = "unreadable",
                           !.upsert_policy = <<"u", "p", "s", "e", "r", "t">>],
    [DefaultRequest EXCEPT !.content = "empty", !.filename = <<"w", ".", "c", "s", "v">>] }

Requests == PolicyRequests \cup OtherRequests

\* A store in which customer C1 exists with a store, a product and a January entry
StoreWithC1 ==
  [ territories |-> << [name |-> <<"T">>] >>,
    customers |->
      << [ cust_code |-> <<"C", "1">>, name |-> <<"N">>, trade_name |-> None,
           territory_id |-> Some(1), group_name |-> Some(<<"F">>), group_2_iws |-> None,
           iws_code |-> None, old_value |-> None, old_name |-> None,
           door_count |-> Some(2), cvm_notes |-> Some(<<"M">>) ] >>,
    stores |->
      << [f \in StoreTextFields |->
            CASE f = "address_1" -> Some(<<"S">>)
              [] f = "postcode" -> Some(<<"9">>)
              [] f = "sort_bucket" -> Some(<<"Y">>)
              [] OTHER -> None] @@ [customer_id |-> 1] >>,
    products |->
      << [ customer_id |-> 1, product_name |-> <<"p">>, last_visit |-> None,
           action |-> Some(<<"J">>), status |-> Some(<<"Q">>), next_action |-> None,
           last_contact |-> Some([y |-> 2025, m |-> 12, d |-> 1]), notes |-> None ] >>,
    cvm_month_entries |->
      (<<1, 2026, 1>> :> [planned_date |-> Some([y |-> 2026, m |-> 1, d |-> 9]),
                          completed_manual |-> FALSE]) ]

InitialStores == {EmptyDb, StoreWithC1}

\* -------------------------------------------------------- state machine

VARIABLES
  store,            \* the committed contents of the database
  db,               \* the request's session: the store as its transaction sees it
  summary,          \* the importer's summary, None before it is initialised
  territory_cache,  \* territory name -> id
  seen,             \* the first-seen map of each pass
  columns,          \* cvm_columns, database_columns and product_groups, once resolved
  exc,              \* the exception raised by the importer, "" if none
  pc,               \* where the request is
  req,              \* the request's form fields
  wb,               \* the uploaded workbook, its data rows as far as they were read
  file,             \* None, or Some(rows) when the rows of the upload are fixed beforehand
  response          \* the response sent

vars ==
  <<store, db, summary, territory_cache, seen, columns, exc, pc, req, wb, file, response>>

NoneSeen == [get_data |-> <<>>, details |-> <<>>, cvm |-> <<>>, database |-> <<>>]

NoColumns == [cvm_columns |-> None, database_columns |-> None, product_groups |-> <<>>]

NoResponse == [status |-> 0, result |-> None]

Init ==
  /\ store \in InitialStores
  /\ db = store
  /\ summary = None
  /\ territory_cache = <<>>
  /\ seen = NoneSeen
  /\ columns = NoColumns
  /\ exc = ""
  /\ pc = "idle"
  /\ req \in Requests
  /\ wb \in Workbooks
  /\ file = None
  /\ response = NoResponse

ResolvedPolicy == _normalize_upsert_policy(req.upsert_policy)

Session == [db |-> db, summary |-> summary, cache |-> territory_cache, exc |-> exc]

StrictBlocker(error_count) ==
  Msg("Strict validation found {0} error(s). Resolve errors before applying import.",
      <<NatStr(error_count)>>)

\* The code after the last pass without the strict-mode blocker
FinishSummaryLenient(s) == [s EXCEPT !.can_apply = (Len(s.blockers) = 0)]

\* The code after the last pass
FinishSummary(s) ==
  LET blocked == IF s.validation_mode = "strict" /\ s.error_count > 0
                 THEN _add_blocker(s, StrictBlocker(s.error_count))
                 ELSE s
  IN [blocked EXCEPT !.can_apply = (Len(blocked.blockers) = 0)]

SheetWarning(ctx, text) ==
  [ctx EXCEPT !.summary = _add_warning(@, Msg(text, <<>>), None, None)]

\* A skipped pass that blocks the import as well
SkippedBlocking(ctx, cols, text, skipped_pc) ==
  [ ctx |-> [SheetWarning(ctx, text) EXCEPT !.summary = _add_blocker(@, Msg(text, <<>>))],
    columns |-> cols, pc |-> skipped_pc ]

\* A pass without rows to read: its sheet is missing or has nothing to import
Skipped(ctx, cols, text, skipped_pc) ==
  [ctx |-> SheetWarning(ctx, text), columns |-> cols, pc |-> skipped_pc]

\* The cleaned cells 1..max_col of a Database label row
DatabaseLabels(w, cells) == [i \in 1..Len(w.database_row4) |-> _clean_text(RowAt(cells, i - 1))]

\* What the importer resolves from a workbook outside its data rows: the calendar
\* year, the CVM column map, and the Database product groups and column map
ResolvedHeaders(w) ==
  LET database(product_labels, field_labels) ==
        LET groups(product_groups) ==
              [ product_groups |-> product_groups,
                database_columns |->
                  IF product_groups = <<>>
                  THEN None
                  ELSE Some(_resolve_database_column_map(product_labels, field_labels)) ]
        IN groups(ProductGroups(field_labels, product_labels, Len(w.database_row4), 1, <<>>))
  IN [ calendar_year |-> _resolve_calendar_year(w.sheets),
       cvm_columns |->
         IF _sheet_by_exact(w.sheets, N_CVM) = None
         THEN None
         ELSE Some(_resolve_cvm_column_map(
                     [i \in 1..Len(w.cvm_row3) |-> _clean_text(w.cvm_row3[i])],
                     Len(w.cvm_row3))),
       database |->
         IF _sheet_by_exact(w.sheets, N_DATABASE) = None
         THEN None
         ELSE Some(database(DatabaseLabels(w, w.database_row3),
                            DatabaseLabels(w, w.database_row4))) ]

\* The header rows do not change while a request runs: ResolvedHeaders is computed
\* once per workbook and looked up by the workbook without its data rows
HeaderTable == { <<w, ResolvedHeaders(w)>> : w \in KnownWorkbooks }

YearHeaderTable == { <<w, ResolvedHeaders(w)>> : w \in YearWorkbooks }

HeadersOf(w) ==
  LET headers(opened) ==
        IF opened \in KnownWorkbooks
        THEN (CHOOSE entry \in HeaderTable : entry[1] = opened)[2]
        ELSE (CHOOSE entry \in YearHeaderTable : entry[1] = opened)[2]
  IN headers([w EXCEPT !.rows = NoRows])

EnterDatabase(ctx, cols, w) ==
  LET loop(database) ==
        IF database.product_groups = <<>>
        THEN Skipped(ctx, cols, "No ACTION product groups found in Database sheet.",
                     "no_database")
        ELSE [ ctx |-> ctx,
               columns |-> [cols EXCEPT !.database_columns = database.database_columns,
                                        !.product_groups = database.product_groups],
               pc |-> "database" ]
      sheet(found) ==
        IF found = None
        THEN Skipped(ctx, cols, "Database sheet not found; skipped product import.",
                     "no_database")
        ELSE loop(found[1])
  IN sheet(HeadersOf(w).database)

YearOverride(r) ==
  IF Strip(r.year_override) = <<>> THEN None ELSE parse_optional_int(r.year_override).val

EnterCvm(ctx, cols, r, w) ==
  LET loop(dated, cvm_columns) ==
        IF cvm_columns = None
        THEN Skipped(dated, cols, "CVM sheet not found; skipped monthly planning import.",
                     "no_cvm")
        ELSE [ ctx |-> dated,
               columns |-> [cols EXCEPT !.cvm_columns = cvm_columns],
               pc |-> "cvm" ]
      year(resolved_year, headers) ==
        IF resolved_year = None
        THEN loop([ctx EXCEPT
                     !.summary =
                        [_add_warning(@, Msg("Calendar year could not be resolved from workbook. Defaulted to {0}.",
                                             <<NatStr(UtcNowYear)>>), None, None)
                           EXCEPT !.calendar_year = Some(UtcNowYear)]],
                  headers.cvm_columns)
        ELSE loop([ctx EXCEPT !.summary.calendar_year = resolved_year], headers.cvm_columns)
      resolve(headers) == year(COALESCE(YearOverride(r), headers.calendar_year), headers)
  IN resolve(HeadersOf(w))

EnterDetails(ctx, cols, w) ==
  IF _sheet_by_prefix(w.sheets, N_CUSTOMER_DETAILS) = None
  THEN Skipped(ctx, cols, "Customer Details sheet not found; skipped store/contact import.",
               "no_details")
  ELSE [ctx |-> ctx, columns |-> cols, pc |-> "details"]

EnterGetData(ctx, cols, w) ==
  IF _sheet_by_prefix(w.sheets, N_GET_DATA) = None
  THEN Skipped(ctx, cols, "Get Data sheet not found; skipped customer master import.",
               "no_get_data")
  ELSE [ctx |-> ctx, columns |-> cols, pc |-> "get_data"]

\* The title of the sheet a pass reads
SheetTitle(w, found) == w.sheets[found[1]].name

\* The importer continues at next_pc, or stops at the exception it raised
Continue(ctx, next_pc) ==
  /\ db' = ctx.db
  /\ summary' = ctx.summary
  /\ territory_cache' = ctx.cache
  /\ exc' = ctx.exc
  /\ pc' = IF ctx.exc # "" THEN "raised" ELSE next_pc

RowsRead(w) ==
  Len(w.rows.get_data) + Len(w.rows.details) + Len(w.rows.cvm) + Len(w.rows.database)

\* The rows the sheet can hold next: any row of the universe while the upload is
\* being revealed, the next row of the file when its rows are fixed
NextRows(sheet, universe) ==
  IF file = None
  THEN IF RowsRead(wb) < MaxRows THEN universe ELSE {}
  ELSE IF Len(wb.rows[sheet]) < Len(file[1][sheet])
       THEN {file[1][sheet][Len(wb.rows[sheet]) + 1]}
       ELSE {}

\* The pass at sheet is over: its row loop has ended, or it was skipped
AtEnd(sheet) ==
  IF pc = sheet
  THEN IF file = None THEN TRUE ELSE Len(wb.rows[sheet]) = Len(file[1][sheet])
  ELSE pc = "no_" \o sheet

Reply(status) == [status |-> status, result |-> None]

DefaultFilename == <<"w", "o", "r", "k", "b", "o", "o", "k", ".", "x", "l", "s", "x">>

\* The handler's checks of the form fields, before the importer is called
RejectedByHandler(r) ==
  LET bad_year(year) ==
        \/ year.exc # ""
        \/ year.val = None
        \/ year.val[1] < 2000
        \/ year.val[1] > 2100
  IN \/ ImportMode(r.import_mode) = "invalid"
     \/ Strip(r.year_override) # <<>> /\ bad_year(parse_optional_int(r.year_override))

\* The importer's checks with the workbook opened before the policies are looked at
ImporterRejectionLate(r, filename, upsert_policy, validation_mode, duplicate_policy) ==
  IF ~\E ext \in AllowedExtensions : EndsWith(Lower(filename), ext) THEN "extension"
  ELSE IF r.content = "empty" THEN "empty"
  ELSE IF r.content = "unreadable" THEN "unreadable"
  ELSE IF upsert_policy = "invalid" THEN "upsert_policy"
  ELSE IF validation_mode = "invalid" THEN "validation_mode"
  ELSE IF duplicate_policy = "invalid" THEN "duplicate_policy"
  ELSE ""

\* The check of import_planner_workbook that raises the HTTPException, in the order
\* of the code: the extension, the payload, the three policies, then load_workbook;
\* "" when the workbook is read
ImporterRejection(r, filename, upsert_policy, validation_mode, duplicate_policy) ==
  IF ~\E ext \in AllowedExtensions : EndsWith(Lower(filename), ext) THEN "extension"
  ELSE IF r.content = "empty" THEN "empty"
  ELSE IF upsert_policy = "invalid" THEN "upsert_policy"
  ELSE IF validation_mode = "invalid" THEN "validation_mode"
  ELSE IF duplicate_policy = "invalid" THEN "duplicate_policy"
  ELSE IF r.content = "unreadable" THEN "unreadable"
  ELSE ""

\* The importer's checks before it reads the workbook
RejectedByImporter(r, filename, upsert_policy, validation_mode, duplicate_policy) ==
  ImporterRejection(r, filename, upsert_policy, validation_mode, duplicate_policy) # ""

\* POST /import/workbook up to the head of the first row loop: the handler's checks
\* of the form, then import_planner_workbook's checks, the summary and the first
\* sheet lookup. A rejected request is answered with status 400 at once.
Upload ==
  /\ pc = "idle"
  /\ \E filename \in {IF req.filename = <<>> THEN DefaultFilename ELSE req.filename},
        upsert_policy \in {_normalize_upsert_policy(req.upsert_policy)},
        validation_mode \in {_normalize_validation_mode(req.validation_mode)},
        duplicate_policy \in {_normalize_duplicate_policy(req.duplicate_policy)} :
       IF IF RejectedByHandler(req)
          THEN TRUE
          ELSE RejectedByImporter(req, filename, upsert_policy, validation_mode,
                                  duplicate_policy)
       THEN /\ pc' = "done"
            /\ response' = Reply(400)
            /\ db' = store
            /\ UNCHANGED <<summary, territory_cache, columns, exc>>
       ELSE \E start \in {EnterGetData(
                             Ctx(db,
                                 NewSummary(filename,
                                            ImportMode(req.import_mode) = "preview",
                                            upsert_policy, validation_mode,
                                            duplicate_policy),
                                 <<>>),
                             NoColumns, wb)} :
              /\ Continue(start.ctx, start.pc)
              /\ columns' = start.columns
              /\ UNCHANGED response
  /\ UNCHANGED <<store, seen, req, wb, file>>

\* The first-seen map of the roster pass
SeenByRoster == seen.get_data

\* The first-seen maps of the four passes
seen_get_data_customer == seen.get_data

seen_detail_store == seen.details

seen_cvm_customer == seen.cvm

seen_database_customer == seen.database

\* One iteration of the Get Data loop
ReadGetDataRow ==
  /\ pc = "get_data"
  /\ \E row \in NextRows("get_data", GetDataRows) :
       \E out \in {RosterRow(Session, seen_get_data_customer,
                            SheetTitle(wb, _sheet_by_prefix(wb.sheets, N_GET_DATA)),
                            2 + Len(wb.rows.get_data), row, ResolvedPolicy)} :
           /\ Continue(out.ctx, "get_data")
           /\ seen' = [seen EXCEPT !.get_data = out.seen]
           /\ wb' = [wb EXCEPT !.rows.get_data = Append(@, row)]
  /\ UNCHANGED <<store, columns, req, file, response>>

\* The Get Data pass is over: on to the Customer Details sheet
EndGetData ==
  /\ AtEnd("get_data")
  /\ \E next \in {EnterDetails(Session, columns, wb)} :
       /\ Continue(next.ctx, next.pc)
       /\ columns' = next.columns
  /\ UNCHANGED <<store, seen, req, wb, file, response>>

\* One iteration of the Customer Details loop
ReadDetailsRow ==
  /\ pc = "details"
  /\ \E row \in NextRows("details", DetailsRows) :
       \E out \in {DetailRow(Session, seen_detail_store,
                            SheetTitle(wb, _sheet_by_prefix(wb.sheets, N_CUSTOMER_DETAILS)),
                            3 + Len(wb.rows.details), row, ResolvedPolicy)} :
           /\ Continue(out.ctx, "details")
           /\ seen' = [seen EXCEPT !.details = out.seen]
           /\ wb' = [wb EXCEPT !.rows.details = Append(@, row)]
  /\ UNCHANGED <<store, columns, req, file, response>>

\* The Customer Details pass is over: the year is resolved, on to the CVM sheet
EndDetails ==
  /\ AtEnd("details")
  /\ \E next \in {EnterCvm(Session, columns, req, wb)} :
       /\ Continue(next.ctx, next.pc)
       /\ columns' = next.columns
  /\ UNCHANGED <<store, seen, req, wb, file, response>>

\* One iteration of the CVM loop
ReadCvmRow ==
  /\ pc = "cvm"
  /\ \E row \in NextRows("cvm", CvmRows) :
       \E out \in {CvmRow(Session, seen_cvm_customer, SheetTitle(wb, _sheet_by_exact(wb.sheets, N_CVM)),
                      4 + Len(wb.rows.cvm), row, columns.cvm_columns[1],
                      summary.calendar_year[1], ResolvedPolicy)} :
       /\ Continue(out.ctx, "cvm")
       /\ seen' = [seen EXCEPT !.cvm = out.seen]
       /\ wb' = [wb EXCEPT !.rows.cvm = Append(@, row)]
  /\ UNCHANGED <<store, columns, req, file, response>>

\* The CVM pass is over: on to the Database sheet
EndCvm ==
  /\ AtEnd("cvm")
  /\ \E next \in {EnterDatabase(Session, columns, wb)} :
       /\ Continue(next.ctx, next.pc)
       /\ columns' = next.columns
  /\ UNCHANGED <<store, seen, req, wb, file, response>>

\* One iteration of the Database loop
ReadDatabaseRow ==
  /\ pc = "database"
  /\ \E row \in NextRows("database", DatabaseRows) :
       \E out \in {DatabaseRow(Session, seen_database_customer,
                              SheetTitle(wb, _sheet_by_exact(wb.sheets, N_DATABASE)),
                              5 + Len(wb.rows.database), row, columns.database_columns[1],
                              columns.product_groups, ResolvedPolicy)} :
           /\ Continue(out.ctx, "database")
           /\ seen' = [seen EXCEPT !.database = out.seen]
           /\ wb' = [wb EXCEPT !.rows.database = Append(@, row)]
  /\ UNCHANGED <<store, columns, req, file, response>>

\* The Database pass is over: the importer returns its summary
EndDatabase ==
  /\ AtEnd("database")
  /\ \E finished \in {FinishSummary(summary)} :
       /\ summary' = finished
       /\ pc' = "returned"
  /\ UNCHANGED <<store, db, territory_cache, seen, columns, exc, req, wb, file, response>>

\* Respond without the test of can_apply: an apply request always commits
RespondCommitsBlocked ==
  /\ pc = "returned"
  /\ IF ImportMode(req.import_mode) = "preview"
     THEN /\ db' = store
          /\ UNCHANGED store
     ELSE /\ store' = db
          /\ UNCHANGED db
  /\ response' = [status |-> 200, result |-> Some(summary)]
  /\ pc' = "done"
  /\ UNCHANGED <<summary, territory_cache, seen, columns, exc, req, wb, file>>

\* Respond without the test of the mode: a preview is committed like an apply
RespondCommitsPreview ==
  /\ pc = "returned"
  /\ IF summary.can_apply
     THEN /\ store' = db
          /\ response' = [status |-> 200, result |-> Some(summary)]
          /\ UNCHANGED db
     ELSE /\ db' = store
          /\ response' = [status |-> 400, result |-> Some(summary)]
          /\ UNCHANGED store
  /\ pc' = "done"
  /\ UNCHANGED <<summary, territory_cache, seen, columns, exc, req, wb, file>>

\* The handler after import_planner_workbook returned: rollback in preview mode,
\* commit or rollback by result.get("can_apply", True) in apply mode
Respond ==
  /\ pc = "returned"
  /\ IF ImportMode(req.import_mode) = "preview"
     THEN /\ db' = store
          /\ response' = [status |-> 200, result |-> Some(summary)]
          /\ UNCHANGED store
     ELSE IF summary.can_apply
          THEN /\ store' = db
               /\ response' = [status |-> 200, result |-> Some(summary)]
               /\ UNCHANGED db
          ELSE /\ db' = store
               /\ response' = [status |-> 400, result |-> Some(summary)]
               /\ UNCHANGED store
  /\ pc' = "done"
  /\ UNCHANGED <<summary, territory_cache, seen, columns, exc, req, wb, file>>

\* An except branch that commits what the importer wrote before it raised
FailCommitting ==
  /\ pc = "raised"
  /\ store' = db
  /\ response' = Reply(400)
  /\ pc' = "done"
  /\ UNCHANGED <<db, summary, territory_cache, seen, columns, exc, req, wb, file>>

\* The handler's except branches: rollback and an error page, with status 500
\* for a database error
Fail ==
  /\ pc = "raised"
  /\ db' = store
  /\ response' = Reply(IF exc = "SQLAlchemyError" THEN 500 ELSE 400)
  /\ pc' = "done"
  /\ UNCHANGED <<store, summary, territory_cache, seen, columns, exc, req, wb, file>>

Next ==
  \/ Upload
  \/ ReadGetDataRow
  \/ EndGetData
  \/ ReadDetailsRow
  \/ EndDetails
  \/ ReadCvmRow
  \/ EndCvm
  \/ ReadDatabaseRow
  \/ EndDatabase
  \/ Respond
  \/ Fail

Spec == Init /\ [][Next]_vars

\* The same workbook imported twice: apply requests under the merge policy
MergeRequests ==
  { Request(W_APPLY, W_MERGE, v, d, <<>>) :
      v \in {W_STANDARD, W_STRICT}, d \in {W_LAST_WINS, W_FIRST_WINS, W_ERROR} }

InitTwice == Init /\ req \in MergeRequests

\* After its import was committed the client uploads the same workbook again,
\* with the same form fields: a new request, whose session starts at the
\* committed store and whose rows are those the first request read
Reimport ==
  /\ pc = "done"
  /\ file = None
  /\ response.status = 200
  /\ ImportMode(req.import_mode) = "apply"
  /\ file' = Some(wb.rows)
  /\ wb' = [wb EXCEPT !.rows = NoRows]
  /\ db' = store
  /\ summary' = None
  /\ territory_cache' = <<>>
  /\ seen' = NoneSeen
  /\ columns' = NoColumns
  /\ exc' = ""
  /\ pc' = "idle"
  /\ response' = NoResponse
  /\ UNCHANGED <<store, req>>

NextTwice ==
  \/ Next
  \/ Reimport

SpecTwice == InitTwice /\ [][NextTwice]_vars

\* -------------------------------------------------------- properties

Applying == ImportMode(req.import_mode) = "apply"

Previewing == ImportMode(req.import_mode) = "preview"

\* C1: an apply request changes the committed store only by committing a summary
\* whose can_apply is true; when can_apply is false the handler rolls back, the
\* session holds the committed store again and the committed store is what it was.
C1_ApplyCommitsOnlyIfCanApply ==
  [][ /\ store' # store => pc = "returned" /\ summary.can_apply /\ store' = db
      /\ pc = "returned" /\ Applying /\ ~summary.can_apply =>
            store' = store /\ db' = store /\ response'.status = 400 ]_vars

\* An apply request whose import wrote to the session and was blocked
C1_Witness == pc = "returned" /\ Applying /\ ~summary.can_apply /\ db # store

\* C2: a preview request never changes the committed store, whatever can_apply is,
\* and its session is rolled back when the handler answers.
C2_PreviewLeavesStore ==
  [][ Previewing => /\ store' = store
                    /\ pc = "returned" => db' = store ]_vars

\* A preview whose import wrote to the session and could have been applied
C2_Witness == pc = "returned" /\ Previewing /\ summary.can_apply /\ db # store

\* The positions of the request inside the four passes
InPasses ==
  pc \in {"get_data", "no_get_data", "details", "no_details", "cvm", "no_cvm",
          "database", "no_database"}

NoRepeat(s) == \A i, j \in 1..Len(s) : s[i] = s[j] => i = j

\* C3: in the summary import_planner_workbook returns, can_apply is true exactly
\* when blockers is empty, and at no point of a run does blockers hold the same
\* message twice.
C3_BlockersDecideCanApply ==
  /\ InPasses => NoRepeat(summary.blockers)
  /\ pc = "returned" =>
        /\ summary.can_apply <=> summary.blockers = <<>>
        /\ NoRepeat(summary.blockers)
  /\ pc = "done" /\ response.result # None =>
        /\ response.result[1].can_apply <=> response.result[1].blockers = <<>>
        /\ NoRepeat(response.result[1].blockers)

\* Two rows were rejected under duplicate policy error, and the returned summary
\* holds the one blocker both added
C3_Witness ==
  /\ pc = "returned"
  /\ summary.duplicate_policy = "error"
  /\ summary.duplicate_rows_skipped >= 2
  /\ summary.blockers = <<DuplicateBlocker>>
  /\ ~summary.can_apply

ErrorIssues(s) == {i \in 1..Len(s.row_issues) : s.row_issues[i].level = "error"}

StrictBlockers(s) == {i \in 1..Len(s.blockers) : s.blockers[i].fmt = StrictBlocker(0).fmt}

\* C4: under strict validation a returned summary that lists an error-level row
\* issue has error_count >= 1, a non-empty blockers list and can_apply false; the
\* strict blocker is in the list once, names the final error count, and is in no
\* summary before the four passes are over.
C4_StrictErrorsBlock ==
  /\ pc = "returned" /\ summary.validation_mode = "strict" /\ ErrorIssues(summary) # {} =>
        /\ summary.error_count >= 1
        /\ summary.blockers # <<>>
        /\ ~summary.can_apply
        /\ Cardinality(StrictBlockers(summary)) = 1
        /\ \A i \in StrictBlockers(summary) :
              summary.blockers[i] = StrictBlocker(summary.error_count)
  /\ InPasses => StrictBlockers(summary) = {}

\* A strict run whose only error is an unparseable date
C4_Witness ==
  /\ pc = "returned"
  /\ summary.validation_mode = "strict"
  /\ summary.duplicate_policy = "last_wins"
  /\ summary.error_count = 1
  /\ \E i \in ErrorIssues(summary) :
        summary.row_issues[i].message.fmt = "Invalid date '{0}' in {1}; value ignored."

SheetNames == {"get_data", "details", "cvm", "database"}

\* The customer code a pass reads from a row of its sheet
CodeOfRow(sheet, row) ==
  CASE sheet = "get_data" -> _clean_code(RowAt(row, 4))
    [] sheet = "details" -> OrText(_clean_code(RowAt(row, 0)), _clean_code(RowAt(row, 2)))
    [] sheet = "cvm" ->
         _clean_code(_column_value(row, Some(columns.cvm_columns[1].cust_code_col)))
    [] sheet = "database" ->
         _clean_code(_cell_value(row, columns.database_columns[1].cust_code_col))

\* The key a pass registers for a row, None when the row registers none: the
\* customer code, and in the Customer Details pass the store key of a row with
\* store data
KeyOfRow(sheet, row) ==
  IF CodeOfRow(sheet, row) = <<>> THEN None
  ELSE IF sheet # "details" THEN Some(CodeOfRow(sheet, row))
  ELSE IF \E k \in DOMAIN DetailPayloadColumns : _clean_text(DetailPayload(row)[k]) # <<>>
       THEN Some(StoreKey(CodeOfRow(sheet, row), DetailPayload(row)))
       ELSE None

\* Two rows read by one pass share a customer code
SharedCode ==
  \E sheet \in SheetNames : \E i, j \in 1..Len(wb.rows[sheet]) :
    /\ i < j
    /\ CodeOfRow(sheet, wb.rows[sheet][i]) # <<>>
    /\ CodeOfRow(sheet, wb.rows[sheet][i]) = CodeOfRow(sheet, wb.rows[sheet][j])

\* Two rows read by one pass register the same key
SharedKey ==
  \E sheet \in SheetNames : \E i, j \in 1..Len(wb.rows[sheet]) :
    /\ i < j
    /\ KeyOfRow(sheet, wb.rows[sheet][i]) # None
    /\ KeyOfRow(sheet, wb.rows[sheet][i]) = KeyOfRow(sheet, wb.rows[sheet][j])

Blocked(s) == ~s.can_apply /\ \E i \in 1..Len(s.blockers) : s.blockers[i] = DuplicateBlocker

\* C5 as stated: under duplicate policy error, two rows of one pass sharing a
\* customer code make the returned summary carry can_apply false and the
\* duplicate-policy blocker.
C5_SharedCodeBlocks ==
  pc = "returned" /\ summary.duplicate_policy = "error" /\ SharedCode => Blocked(summary)

\* C5, amended: under duplicate policy error, two rows of one pass that register
\* the same key (the customer code; in the Customer Details pass the store key
\* of a row with store data) make the returned summary carry can_apply false,
\* the duplicate-policy blocker and a skipped row, and the request then leaves
\* the committed store as it was and rolls its session back.
C5_SharedKeyBlocks ==
  /\ [](pc = "returned" /\ summary.duplicate_policy = "error" /\ SharedKey =>
          Blocked(summary) /\ summary.duplicate_rows_skipped >= 1)
  /\ [][ pc = "returned" /\ summary.duplicate_policy = "error" /\ SharedKey =>
            store' = store /\ db' = store ]_vars

\* An apply request under duplicate policy error whose workbook repeated a key
\* after the first row of that key was written to the session
C5_Witness ==
  /\ pc = "returned"
  /\ Applying
  /\ summary.duplicate_policy = "error"
  /\ SharedKey
  /\ db # store

\* The step reads a row of sheet whose key its pass has seen, and raises nothing
ReadsSeenKey(sheet) ==
  /\ pc = sheet
  /\ Len(wb'.rows[sheet]) = Len(wb.rows[sheet]) + 1
  /\ exc' = ""
  /\ KeyOfRow(sheet, wb'.rows[sheet][Len(wb'.rows[sheet])]) # None
  /\ KeyOfRow(sheet, wb'.rows[sheet][Len(wb'.rows[sheet])])[1] \in DOMAIN seen[sheet]

\* The step logs a row issue of the given level about a duplicate key
LogsDuplicate(level) ==
  /\ Len(summary'.row_issues) > Len(summary.row_issues)
  /\ summary'.row_issues[Len(summary'.row_issues)].level = level
  /\ summary'.row_issues[Len(summary'.row_issues)].message.fmt
        = DuplicateMessage(<<>>, <<>>, 0, <<>>).fmt

\* C6: under duplicate policy first_wins, in each of the four passes a row whose
\* key was already seen in its pass logs a warning, adds one to
\* duplicate_rows_skipped and writes nothing to the session.
C6_FirstWinsRowWritesNothing ==
  [][ \A sheet \in SheetNames :
        ReadsSeenKey(sheet) /\ summary.duplicate_policy = "first_wins" =>
          /\ LogsDuplicate("warning")
          /\ summary'.duplicate_rows_skipped = summary.duplicate_rows_skipped + 1
          /\ db' = db ]_vars

\* The row the step reads from sheet
RowRead(sheet) == wb'.rows[sheet][Len(wb'.rows[sheet])]

\* The step logs the last-row-wins warning about a duplicate key
LogsLastRowWins ==
  \E i \in (Len(summary.row_issues) + 1)..Len(summary'.row_issues) :
    /\ summary'.row_issues[i].level = "warning"
    /\ summary'.row_issues[i].message.fmt = DuplicateMessage(<<>>, <<>>, 0, <<>>).fmt
    /\ summary'.row_issues[i].message.args[4] = LastRowWins

\* The customer name and text fields a pass reads from a row of its sheet, <<>>
\* for a field the row leaves blank or the pass does not read
CustomerTextOfRow(sheet, row) ==
  LET blank == [f \in CustomerTextFields \cup {"name"} |-> <<>>] IN
  CASE sheet = "get_data" ->
         [blank EXCEPT !.name = _clean_text(RowAt(row, 5)),
                       !.group_name = _clean_text(RowAt(row, 1)),
                       !.group_2_iws = _clean_text(RowAt(row, 2)),
                       !.iws_code = _clean_text(RowAt(row, 3)),
                       !.old_value = _clean_text(RowAt(row, 6)),
                       !.old_name = _clean_text(RowAt(row, 7))]
    [] sheet = "details" ->
         [blank EXCEPT !.name = OrText(_extract_name(RowAt(row, 1)),
                                       _extract_name(RowAt(row, 2)))]
    [] sheet = "cvm" ->
         [blank EXCEPT
            !.name = _clean_text(_column_value(row, Some(columns.cvm_columns[1].customer_name_col))),
            !.trade_name = _clean_text(_column_value(row, Some(columns.cvm_columns[1].trade_name_col))),
            !.cvm_notes = _clean_text(_column_value(row, Some(columns.cvm_columns[1].notes_col)))]
    [] sheet = "database" ->
         [blank EXCEPT
            !.name = _clean_text(_cell_value(row, columns.database_columns[1].customer_name_col)),
            !.trade_name = _clean_text(_cell_value(row, columns.database_columns[1].trade_name_col))]

\* In d, the customer of the row holds every non-blank name and text value of the row
CustomerHoldsRow(d, sheet, row) ==
  LET id == CustomerIdOf(d, CodeOfRow(sheet, row))
      text == CustomerTextOfRow(sheet, row)
  IN /\ id # None
     /\ \A f \in DOMAIN text :
          text[f] # <<>> =>
            IF f = "name" THEN d.customers[id[1]].name = text[f]
            ELSE d.customers[id[1]][f] = Some(text[f])

\* In d, the store of a Customer Details row holds every non-blank value of the row
StoreHoldsRow(d, row) ==
  LET id == CustomerIdOf(d, CodeOfRow("details", row))
      params == StoreParams(DetailPayload(row))
  IN /\ id # None
     /\ StoreLookup(d, id[1], params) # None
     /\ \A f \in DOMAIN DetailPayloadColumns :
          params[f] # <<>> => d.stores[StoreLookup(d, id[1], params)[1]][f] = Some(params[f])

\* The text fields of a product, by their offset in the product's column group
ProductTextOffsets == [action |-> 0, status |-> 1, next_action |-> 2, notes |-> 4]

\* In d, each product of a Database row holds every non-blank text value the row
\* has in the product's column group
ProductsHoldRow(d, row) ==
  LET id == CustomerIdOf(d, CodeOfRow("database", row)) IN
  /\ id # None
  /\ \A g \in 1..Len(columns.product_groups) : \A f \in DOMAIN ProductTextOffsets :
       LET text == _clean_text(_cell_value(row, columns.product_groups[g].col
                                                  + ProductTextOffsets[f]))
           found == ProductLookup(d, id[1], columns.product_groups[g].name)
       IN text # <<>> => found # None /\ d.products[found[1]][f] = Some(text)

\* After the step, the session holds the non-blank text values of the row read
SessionHoldsRow(sheet) ==
  /\ CustomerHoldsRow(db', sheet, RowRead(sheet))
  /\ sheet = "details" => StoreHoldsRow(db', RowRead(sheet))
  /\ sheet = "database" => ProductsHoldRow(db', RowRead(sheet))

\* Every record of the table old is in the table new as it was
Kept(old, new) ==
  /\ Len(new) >= Len(old)
  /\ \A i \in 1..Len(old) : new[i] = old[i]

ReadsRow(sheet) ==
  /\ pc = sheet
  /\ Len(wb'.rows[sheet]) = Len(wb.rows[sheet]) + 1
  /\ exc' = ""

\* The row the step reads names a customer the committed store holds
NamesStoredCustomer(sheet) ==
  /\ CodeOfRow(sheet, RowRead(sheet)) # <<>>
  /\ CustomerIdOf(store, CodeOfRow(sheet, RowRead(sheet))) # None

\* The duplicate policy rejects the row the step reads before its customer
\* upsert: a seen key, outside the Customer Details pass, under first_wins or error
RejectedBeforeUpsert(sheet) ==
  /\ sheet # "details"
  /\ KeyOfRow(sheet, RowRead(sheet))[1] \in DOMAIN seen[sheet]
  /\ summary.duplicate_policy # "last_wins"

InRun == pc \in SheetNames \cup {"no_get_data", "no_details", "no_cvm", "no_database", "returned"}

\* C8 as stated: under create_only the customers of the committed store keep
\* every field through the run, and every row naming one of them adds one to
\* customers_skipped_existing.
C8_EveryReferenceCounted ==
  /\ [](InRun /\ summary.upsert_policy = "create_only" => Kept(store.customers, db.customers))
  /\ [][ \A sheet \in SheetNames :
           ReadsRow(sheet) /\ summary.upsert_policy = "create_only"
             /\ NamesStoredCustomer(sheet) =>
               summary'.customers_skipped_existing
                 = summary.customers_skipped_existing + 1 ]_vars

\* C8, amended: under create_only the customers of the committed store keep
\* every field through the run and its commit, and a row naming one of them
\* adds one to customers_skipped_existing when it reaches the customer upsert,
\* and nothing when the duplicate policy rejects it first.
C8_ExistingCustomerKept ==
  /\ [](InRun /\ summary.upsert_policy = "create_only" => Kept(store.customers, db.customers))
  /\ [][ /\ pc = "returned" /\ summary.upsert_policy = "create_only" =>
              Kept(store.customers, store'.customers)
         /\ \A sheet \in SheetNames :
              ReadsRow(sheet) /\ summary.upsert_policy = "create_only"
                /\ NamesStoredCustomer(sheet) =>
                  summary'.customers_skipped_existing
                    = summary.customers_skipped_existing
                        + (IF RejectedBeforeUpsert(sheet) THEN 0 ELSE 1) ]_vars

\* A create_only run over a store holding customer C1 has met C1 in three rows
\* that carry another name, and has written to the session
C8_Witness ==
  /\ pc = "returned"
  /\ summary.upsert_policy = "create_only"
  /\ store.customers # <<>>
  /\ summary.customers_skipped_existing = 3
  /\ \E sheet \in SheetNames : \E i \in 1..Len(wb.rows[sheet]) :
       /\ CodeOfRow(sheet, wb.rows[sheet][i]) = store.customers[1].cust_code
       /\ CustomerTextOfRow(sheet, wb.rows[sheet][i]).name \notin {<<>>, store.customers[1].name}
  /\ db # store

\* The nullable fields of a table's records
NullableFields(table) ==
  CASE table = "customers" -> CustomerTextFields \cup {"territory_id", "door_count"}
    [] table = "stores" -> StoreTextFields
    [] table = "products" -> {"last_visit", "action", "status", "next_action",
                              "last_contact", "notes"}

\* The step clears no field of a record the session held
NoFieldCleared ==
  /\ \A table \in {"customers", "stores", "products"} :
       /\ Len(db'[table]) >= Len(db[table])
       /\ \A i \in 1..Len(db[table]) : \A f \in NullableFields(table) :
            db[table][i][f] # None => db'[table][i][f] # None
  /\ \A i \in 1..Len(db.customers) : db.customers[i].name # <<>> => db'.customers[i].name # <<>>

\* The step merges the name and text values of the row read into the customer
\* the session held for the row's code: the row's value where it has one, the
\* held value otherwise
CustomerMerged(sheet) ==
  LET id == CustomerIdOf(db, CodeOfRow(sheet, RowRead(sheet)))
      text == CustomerTextOfRow(sheet, RowRead(sheet))
  IN id # None =>
       \A f \in DOMAIN text :
         IF f = "name"
         THEN db'.customers[id[1]].name
                = (IF text[f] # <<>> THEN text[f] ELSE db.customers[id[1]].name)
         ELSE db'.customers[id[1]][f]
                = (IF text[f] # <<>> THEN Some(text[f]) ELSE db.customers[id[1]][f])

\* As CustomerMerged, for the store the session held for a Customer Details row
StoreMerged(row) ==
  LET id == CustomerIdOf(db, CodeOfRow("details", row))
      params == StoreParams(DetailPayload(row))
  IN id # None /\ StoreLookup(db, id[1], params) # None =>
       \A f \in DOMAIN DetailPayloadColumns :
         db'.stores[StoreLookup(db, id[1], params)[1]][f]
           = (IF params[f] # <<>> THEN Some(params[f])
              ELSE db.stores[StoreLookup(db, id[1], params)[1]][f])

\* As CustomerMerged, for the products the session held for a Database row
ProductsMerged(row) ==
  LET id == CustomerIdOf(db, CodeOfRow("database", row)) IN
  id # None =>
    \A g \in 1..Len(columns.product_groups) : \A f \in DOMAIN ProductTextOffsets :
      LET text == _clean_text(_cell_value(row, columns.product_groups[g].col
                                                 + ProductTextOffsets[f]))
          found == ProductLookup(db, id[1], columns.product_groups[g].name)
      IN found # None =>
           db'.products[found[1]][f]
             = (IF text # <<>> THEN Some(text) ELSE db.products[found[1]][f])

\* The row the step reads reaches its pass's upserts keyed by key: it has the
\* key and the duplicate policy does not reject it
Upserted(sheet) ==
  /\ KeyOfRow(sheet, RowRead(sheet)) # None
  /\ \/ KeyOfRow(sheet, RowRead(sheet))[1] \notin DOMAIN seen[sheet]
     \/ summary.duplicate_policy = "last_wins"

Reimported == file # None

\* C10: a second import of the same workbook under the merge policy, after the
\* first was committed, ends with a session, and commits a store, whose
\* customers, stores and products are those the first import left, and it
\* creates no customer, store or product.
C10_MergeTwiceSameRows ==
  [][ pc = "returned" /\ Reimported /\ summary.upsert_policy = "merge" =>
        /\ db.customers = store.customers
        /\ db.stores = store.stores
        /\ db.products = store.products
        /\ store'.customers = store.customers
        /\ store'.stores = store.stores
        /\ store'.products = store.products
        /\ summary.customers_created = 0
        /\ summary.stores_created = 0
        /\ summary.products_created = 0 ]_vars

\* A second import was committed after updating customers, a store and a product
C10_Witness ==
  /\ pc = "done"
  /\ Reimported
  /\ response.status = 200
  /\ response.result # None
  /\ response.result[1].customers_updated >= 2
  /\ response.result[1].stores_updated >= 1
  /\ response.result[1].products_updated >= 1

\* The territory name a pass reads from a row of its sheet
TerritoryOfRow(sheet, row) ==
  CASE sheet = "get_data" -> _clean_text(RowAt(row, 0))
    [] sheet = "details" -> _clean_text(RowAt(row, 3))
    [] sheet = "cvm" ->
         _clean_text(_column_value(row, Some(columns.cvm_columns[1].territory_col)))
    [] sheet = "database" ->
         _clean_text(_cell_value(row, columns.database_columns[1].territory_col))

\* The door count a pass hands to the customer upsert: the plan-grid pass alone
\* reads one
DoorCountOfRow(sheet, row) ==
  IF sheet = "cvm"
  THEN _to_int(_column_value(row, Some(columns.cvm_columns[1].door_count_col))).val
  ELSE None

\* The step reads a row that reaches its pass's customer upsert: the row has a
\* code and, outside the Customer Details pass, the duplicate policy accepts it
ReachesCustomerUpsert(sheet) ==
  /\ ReadsRow(sheet)
  /\ CodeOfRow(sheet, RowRead(sheet)) # <<>>
  /\ sheet = "details" \/ Upserted(sheet)

\* The step leaves the customer the session held for the row's code with the
\* row's name if it has one, and with the row's value, null where blank, in
\* every text field and the territory; with_door_count asks the same of the
\* door count
CustomerReplaced(sheet, with_door_count) ==
  LET row == RowRead(sheet)
      id == CustomerIdOf(db, CodeOfRow(sheet, row))
      text == CustomerTextOfRow(sheet, row)
  IN id # None =>
       /\ db'.customers[id[1]].name
            = (IF text.name # <<>> THEN text.name ELSE db.customers[id[1]].name)
       /\ \A f \in CustomerTextFields : db'.customers[id[1]][f] = NULLIF(text[f])
       /\ IF TerritoryOfRow(sheet, row) = <<>>
          THEN db'.customers[id[1]].territory_id = None
          ELSE /\ db'.customers[id[1]].territory_id # None
               /\ db'.territories[db'.customers[id[1]].territory_id[1]].name
                    = TerritoryOfRow(sheet, row)
       /\ with_door_count =>
            db'.customers[id[1]].door_count = DoorCountOfRow(sheet, row)

\* C11: under the overwrite policy an upsert of a customer the session holds
\* replaces every field with the row's value, null where the row's value is
\* blank, the name alone being kept when the row's name is blank.
C11_OverwriteReplacesAll ==
  [][ \A sheet \in SheetNames :
        ReachesCustomerUpsert(sheet) /\ summary.upsert_policy = "overwrite" =>
          CustomerReplaced(sheet, TRUE) ]_vars

\* The name a customer created for code gets when its row has none
PlaceholderName(code) == <<"C", "u", "s", "t", "o", "m", "e", "r", " ">> \o code

\* C12: a row that creates a customer gives it the row's name, or "Customer
\* {code}" when the row's name is blank; a customer the session already holds
\* changes its name only to the non-blank name of the row read, under every
\* upsert policy, so neither a blank nor the placeholder replaces it.
C12_PlaceholderOnCreationOnly ==
  [][ InPasses =>
        /\ \A i \in 1..Len(db.customers) :
             /\ db'.customers[i].name # <<>>
             /\ db'.customers[i].name # db.customers[i].name =>
                  /\ pc \in SheetNames
                  /\ ReadsRow(pc)
                  /\ db.customers[i].cust_code = CodeOfRow(pc, RowRead(pc))
                  /\ db'.customers[i].name = CustomerTextOfRow(pc, RowRead(pc)).name
        /\ \A sheet \in SheetNames :
             ReachesCustomerUpsert(sheet)
               /\ CustomerIdOf(db, CodeOfRow(sheet, RowRead(sheet))) = None =>
                 /\ Len(db'.customers) = Len(db.customers) + 1
                 /\ db'.customers[Len(db'.customers)].cust_code
                      = CodeOfRow(sheet, RowRead(sheet))
                 /\ db'.customers[Len(db'.customers)].name
                      = (IF CustomerTextOfRow(sheet, RowRead(sheet)).name # <<>>
                         THEN CustomerTextOfRow(sheet, RowRead(sheet)).name
                         ELSE PlaceholderName(CodeOfRow(sheet, RowRead(sheet)))) ]_vars

\* A run created customer C1 from a row without a name, and a later row
\* without a name has updated it: it still carries the placeholder
C12_Witness ==
  /\ pc \in SheetNames
  /\ store.customers = <<>>
  /\ Len(db.customers) = 1
  /\ db.customers[1].name = PlaceholderName(db.customers[1].cust_code)
  /\ summary.customers_created = 1
  /\ summary.customers_updated >= 1

\* The planned date and the completion flag the plan-grid pass resolves for
\* month m of a row
PlannedOfRow(row, m) ==
  _to_date_with_issue(_column_value(row, columns.cvm_columns[1].month_cols[m].planned_col),
                      summary, <<>>, 0, <<>>).val

CompletedOfRow(row, m) ==
  _to_bool(_column_value(row, columns.cvm_columns[1].month_cols[m].completed_col))

\* The step reads a plan-grid row that reaches the loop over the months
ReachesMonths ==
  /\ ReadsRow("cvm")
  /\ CodeOfRow("cvm", RowRead("cvm")) # <<>>
  /\ Upserted("cvm")

\* The key of the row's entry for month m, once the row is processed
MonthKey(m) ==
  <<CustomerIdOf(db', CodeOfRow("cvm", RowRead("cvm")))[1], summary.calendar_year[1], m>>

\* The step logs, at the validation mode's level, that the completion of month
\* m was ignored
LogsIgnoredCompletion(m) ==
  \E i \in (Len(summary.row_issues) + 1)..Len(summary'.row_issues) :
    /\ summary'.row_issues[i].level = _validation_level(summary)
    /\ summary'.row_issues[i].message
         = Msg("COMPLETED {0} ignored because planned date is missing or invalid.",
               <<MONTH_SHORT[m]>>)

\* C13: when a plan-grid row asks for the completion of a month for which it
\* resolves no planned date, the entry of that customer, year and month, if
\* the session holds one once the row is processed, has completed_manual
\* false, and an issue naming the month is logged at the validation mode's level.
C13_CompletionNeedsPlannedDate ==
  [][ ReachesMonths =>
        \A m \in 1..12 :
          CompletedOfRow(RowRead("cvm"), m) /\ PlannedOfRow(RowRead("cvm"), m) = None =>
            /\ LogsIgnoredCompletion(m)
            /\ MonthKey(m) \in DOMAIN db'.cvm_month_entries =>
                 ~db'.cvm_month_entries[MonthKey(m)].completed_manual ]_vars


\* ------------------------------------------ /cvm/month-update and the plan table

\* date.fromisoformat of a cleaned string in the form YYYY-MM-DD; None where it
\* raises ValueError
date_fromisoformat(cleaned) ==
  IF /\ Len(cleaned) = 10
     /\ cleaned[5] = "-"
     /\ cleaned[8] = "-"
     /\ IsDigitStr(SubSeq(cleaned, 1, 4))
     /\ IsDigitStr(SubSeq(cleaned, 6, 7))
     /\ IsDigitStr(SubSeq(cleaned, 9, 10))
  THEN LET y == NatVal(SubSeq(cleaned, 1, 4))
           m == NatVal(SubSeq(cleaned, 6, 7))
           d == NatVal(SubSeq(cleaned, 9, 10))
       IN IF y >= 1 /\ m \in 1..12 /\ d >= 1 /\ d <= DaysIn(y, m)
          THEN Some([y |-> y, m |-> m, d |-> d])
          ELSE None
  ELSE None

\* parse_optional_date(value, field_name): [ok |-> FALSE] stands for the
\* HTTPException of an unparsable value
parse_optional_date(value) ==
  LET cleaned == Strip(value) IN
  IF cleaned = <<>> THEN [ok |-> TRUE, val |-> None]
  ELSE IF date_fromisoformat(cleaned) = None THEN [ok |-> FALSE, val |-> None]
  ELSE [ok |-> TRUE, val |-> date_fromisoformat(cleaned)]

\* The handler's pair without the reset of a completion that has no date
ResolvedMonthEntryUnchecked(planned_date_value, is_completed) ==
  IF planned_date_value = None /\ ~is_completed THEN None
  ELSE Some([planned_date |-> planned_date_value, completed_manual |-> is_completed])

\* What cvm_month_update stores for the key: None for the DELETE, Some(entry) for
\* the INSERT ... ON CONFLICT DO UPDATE
ResolvedMonthEntry(planned_date_value, is_completed) ==
  LET has_date == planned_date_value # None
      completed == IF is_completed /\ ~has_date THEN FALSE ELSE is_completed
  IN IF ~has_date /\ ~completed THEN None
     ELSE Some([planned_date |-> planned_date_value, completed_manual |-> completed])

\* cvm_month_update on the store d: the store after the request. A request answered
\* with an HTTPException leaves the store as it was. completed_manual is None or
\* Some(text) as the form sends it.
cvm_month_update(d, customer_id, month, planned_date, completed_manual, year) ==
  IF month < 1 \/ month > 12 THEN d
  ELSE IF customer_id \notin 1..Len(d.customers) THEN d
  ELSE IF ~parse_optional_date(planned_date).ok THEN d
  ELSE LET key == <<customer_id, year, month>>
           is_completed == completed_manual # None /\ completed_manual[1] # <<>>
           resolved == ResolvedMonthEntry(parse_optional_date(planned_date).val, is_completed)
       IN IF resolved = None
          THEN [d EXCEPT !.cvm_month_entries =
                  [k \in DOMAIN @ \ {key} |-> @[k]]]
          ELSE [d EXCEPT !.cvm_month_entries = (key :> resolved[1]) @@ @]

\* The form fields the month-update requests are drawn from
FormCustomerIds == {1, 9}
FormMonths == {2, 13}
FormDates ==
  { <<>>, <<" ", "2", "0", "2", "6", "-", "0", "2", "-", "2", "0">>,
    <<"2", "0", "2", "6", "-", "2", "-", "3", "0">> }
FormFlags == {None, Some(<<"o", "n">>)}

\* POST /cvm/month-update between two import requests
MonthUpdate ==
  /\ pc \in {"idle", "done"}
  /\ \E customer_id \in FormCustomerIds, month \in FormMonths,
        planned_date \in FormDates, completed_manual \in FormFlags :
       \E saved \in {cvm_month_update(store, customer_id, month, planned_date,
                                      completed_manual, UtcNowYear)} :
         /\ store' = saved
         /\ db' = saved
  /\ UNCHANGED <<summary, territory_cache, seen, columns, exc, pc, req, wb, file, response>>

\* The import requests of the plan-table runs: every upsert policy in apply mode
PlanRequests ==
  { Request(W_APPLY, u, W_STANDARD, W_LAST_WINS, <<>>) :
      u \in {W_MERGE, W_CREATE_ONLY, W_OVERWRITE} }

InitPlan == Init /\ store = EmptyDb /\ wb = WorkbookFull /\ req \in PlanRequests

\* A further import request: the workbook answered before is uploaded again under
\* any of the policies
ImportAgain ==
  /\ pc = "done"
  /\ file = None
  /\ req' \in PlanRequests
  /\ file' = Some(wb.rows)
  /\ wb' = [wb EXCEPT !.rows = NoRows]
  /\ db' = store
  /\ summary' = None
  /\ territory_cache' = <<>>
  /\ seen' = NoneSeen
  /\ columns' = NoColumns
  /\ exc' = ""
  /\ pc' = "idle"
  /\ response' = NoResponse
  /\ UNCHANGED store

NextPlan ==
  \/ Next
  \/ MonthUpdate
  \/ ImportAgain

SpecPlan == InitPlan /\ [][NextPlan]_vars

\* C14: starting from an empty monthly-plan table, after any sequence of committed
\* import runs and month-update requests every stored entry that is completed has a
\* planned date, and no stored entry has neither a planned date nor a completion
C14_StoredEntriesWellFormed ==
  \A k \in DOMAIN store.cvm_month_entries :
    /\ store.cvm_month_entries[k].completed_manual =>
         store.cvm_month_entries[k].planned_date # None
    /\ ~(/\ store.cvm_month_entries[k].planned_date = None
         /\ ~store.cvm_month_entries[k].completed_manual)

\* A second import was committed over a table that holds an entry written by an
\* import (January) and a completed entry written by a month update (February)
C14_Witness ==
  /\ pc = "done"
  /\ file # None
  /\ response.status = 200
  /\ ImportMode(req.import_mode) = "apply"
  /\ summary.cvm_entries_upserted > 0
  /\ <<1, UtcNowYear, 1>> \in DOMAIN store.cvm_month_entries
  /\ <<1, UtcNowYear, 2>> \in DOMAIN store.cvm_month_entries
  /\ store.cvm_month_entries[<<1, UtcNowYear, 2>>].completed_manual



\* ------------------------------------------------ uploads with fixed rows

\* A row of n empty cells
BlankRow(n) == [i \in 1..n |-> NoCell]

\* A row of n cells: white space in the first, the others empty
SpacesRow(n) == [i \in 1..n |-> IF i = 1 THEN StrCell(<<" ">>) ELSE NoCell]

\* A plan-grid row under WorkbookFull's header that holds a customer code only
CodeOnlyCvmRow ==
  << NoCell, NoCell, StrCell(<<"C", "1">>), NoCell, NoCell, NoCell, NoCell, NoCell, NoCell >>

\* A plan-grid row that holds a sort bucket and nothing else
SortOnlyCvmRow ==
  << NoCell, NoCell, NoCell, StrCell(<<"Y">>), NoCell, NoCell, NoCell, NoCell, NoCell >>

\* A plan-grid row for customer C1 with notes
NotesCvmRow ==
  << NoCell, NoCell, StrCell(<<"C", "1">>), NoCell, NoCell, NoCell, StrCell(<<"V">>), NoCell, NoCell >>

\* A detail row for customer C1 at another address
SecondStoreRow ==
  << StrCell(<<"C", "1">>), StrCell(<<"A">>), NoCell, NoCell, NoCell, StrCell(<<"R">>), NoCell, NoCell >>

\* The rows a fixed upload draws from: the rows of the revealed uploads, rows
\* without content, the plan-grid rows without month cells and the rows of a
\* second store and of plan-grid notes
FileRows ==
  [ get_data |-> GetDataRows,
    details |-> DetailsRows \cup {SpacesRow(8), SecondStoreRow},
    cvm |-> CvmRows \cup {CodeOnlyCvmRow, SortOnlyCvmRow, NotesCvmRow, BlankRow(9)},
    database |-> DatabaseRows \cup {BlankRow(8)} ]

MaxFileRows == 2

SheetRowCounts == {"get_data", "details", "cvm", "database"}

\* How many rows each sheet holds: get_data, details, cvm, database
FileShapes ==
  { n \in [SheetRowCounts -> 0..MaxFileRows] :
      n.get_data + n.details + n.cvm + n.database <= MaxFileRows }

\* The data rows of the uploads: at most MaxFileRows rows over the four sheets
Files ==
  UNION { [ get_data : [1..n.get_data -> FileRows.get_data],
            details : [1..n.details -> FileRows.details],
            cvm : [1..n.cvm -> FileRows.cvm],
            database : [1..n.database -> FileRows.database] ] : n \in FileShapes }

\* The uploads with one row for customer C1 in each of the four sheets
FilesAcross ==
  [ get_data : [1..1 -> {row \in FileRows.get_data : row[5] = StrCell(<<"C", "1">>)}],
    details : [1..1 -> {row \in FileRows.details : row[1] = StrCell(<<"C", "1">>)}],
    cvm : [1..1 -> {row \in FileRows.cvm : row[3] = StrCell(<<"C", "1">>)}],
    database : [1..1 -> {row \in FileRows.database : row[1] = StrCell(<<"C", "1">>)}] ]

InitFiles ==
  /\ store \in InitialStores
  /\ db = store
  /\ summary = None
  /\ territory_cache = <<>>
  /\ seen = NoneSeen
  /\ columns = NoColumns
  /\ exc = ""
  /\ pc = "idle"
  /\ req \in PolicyRequests
  /\ wb = WorkbookFull
  /\ file \in {Some(f) : f \in Files \cup FilesAcross}
  /\ response = NoResponse

SpecFiles == InitFiles /\ [][Next]_vars

\* The row read is the first row of the plan-grid pass that names its customer
FirstRowOfCustomer ==
  \A i \in 1..Len(wb.rows["cvm"]) :
    CodeOfRow("cvm", wb.rows["cvm"][i]) # CodeOfRow("cvm", RowRead("cvm"))

\* C15: when a plan-grid row resolves neither a planned date nor a completion for
\* a month, no entry of that customer, year and month is held once the row is
\* processed, also when an entry existed before the run.
C15_EmptyMonthLeavesNoEntry ==
  [][ ReachesMonths /\ FirstRowOfCustomer =>
        \A m \in 1..12 :
          PlannedOfRow(RowRead("cvm"), m) = None /\ ~CompletedOfRow(RowRead("cvm"), m) =>
            MonthKey(m) \notin DOMAIN db'.cvm_month_entries ]_vars


\* The pair the row read supplies for month m
SuppliedPair(m) ==
  [ planned_date |-> PlannedOfRow(RowRead("cvm"), m),
    completed_manual |-> CompletedOfRow(RowRead("cvm"), m) ]

\* C16 as stated: whenever a plan-grid row supplies a planned date for a month,
\* with or without a completion, the entry of that customer, year and month
\* equals the supplied pair once the row is processed, under every policy.
C16_SuppliedPairStoredAnyPolicy ==
  [][ ReachesMonths =>
        \A m \in 1..12 :
          SuppliedPair(m).planned_date # None =>
            /\ MonthKey(m) \in DOMAIN db'.cvm_month_entries
            /\ db'.cvm_month_entries[MonthKey(m)] = SuppliedPair(m) ]_vars

\* C16: whenever a plan-grid row supplies a planned date for a month, with or
\* without a completion, the entry of that customer, year and month equals the
\* supplied pair once the row is processed, nothing of the entry held before
\* being kept; under create_only an entry the session already holds is left as
\* it is instead.
C16_SuppliedPairReplaces ==
  [][ ReachesMonths =>
        \A m \in 1..12 :
          SuppliedPair(m).planned_date # None =>
            /\ MonthKey(m) \in DOMAIN db'.cvm_month_entries
            /\ IF /\ summary.upsert_policy = "create_only"
                  /\ MonthKey(m) \in DOMAIN db.cvm_month_entries
               THEN db'.cvm_month_entries[MonthKey(m)] = db.cvm_month_entries[MonthKey(m)]
               ELSE db'.cvm_month_entries[MonthKey(m)] = SuppliedPair(m) ]_vars

\* A committed run replaced both fields of the January entry the store held
C16_Witness ==
  /\ pc = "done"
  /\ response.status = 200
  /\ ImportMode(req.import_mode) = "apply"
  /\ summary.upsert_policy # "create_only"
  /\ summary.cvm_entries_upserted > 0
  /\ Len(wb.rows["cvm"]) = 1
  /\ <<1, UtcNowYear, 1>> \in DOMAIN store.cvm_month_entries
  /\ store.cvm_month_entries[<<1, UtcNowYear, 1>>]
       = [planned_date |-> Some([y |-> 2026, m |-> 1, d |-> 5]), completed_manual |-> TRUE]
  /\ Len(store.customers) = 1
  /\ store.customers[1].cvm_notes = Some(<<"M">>)


\* No cell of the row holds text: no customer code and no other populated cell
NoCellPopulated(row) == \A i \in 1..Len(row) : _clean_text(row[i]) = <<>>

\* The step reads a row of the sheet, whether or not the row raises
TakesRow(sheet) ==
  /\ pc = sheet
  /\ Len(wb'.rows[sheet]) = Len(wb.rows[sheet]) + 1

FilenameOf(r) == IF r.filename = <<>> THEN DefaultFilename ELSE r.filename

\* The request has a bad file extension, an empty payload, or a value of the
\* upsert policy, validation mode or duplicate policy that is not recognized
BadUpload(r) ==
  \/ ~\E ext \in AllowedExtensions : EndsWith(Lower(FilenameOf(r)), ext)
  \/ r.content = "empty"
  \/ _normalize_upsert_policy(r.upsert_policy) = "invalid"
  \/ _normalize_validation_mode(r.validation_mode) = "invalid"
  \/ _normalize_duplicate_policy(r.duplicate_policy) = "invalid"

\* The check of the importer that raises for the request
RejectionOf(r) ==
  ImporterRejection(r, FilenameOf(r), _normalize_upsert_policy(r.upsert_policy),
                    _normalize_validation_mode(r.validation_mode),
                    _normalize_duplicate_policy(r.duplicate_policy))

\* C18: a bad file extension, an empty payload or an unrecognized upsert policy,
\* validation mode or duplicate policy makes import_planner_workbook raise before
\* the workbook is opened and before any row is read: the store and the session
\* are untouched, no summary is made and none is returned.
C18_RejectedBeforeWorkbook ==
  [][ pc = "idle" /\ ~RejectedByHandler(req) /\ BadUpload(req) =>
        /\ RejectionOf(req) \notin {"", "unreadable"}
        /\ pc' = "done"
        /\ response' = Reply(400)
        /\ store' = store
        /\ db' = db
        /\ summary' = None
        /\ wb' = wb ]_vars

\* A request with an unrecognized upsert policy and a payload that is no
\* workbook was answered
C18_Witness ==
  /\ pc = "done"
  /\ response = Reply(400)
  /\ req.content = "unreadable"
  /\ _normalize_upsert_policy(req.upsert_policy) = "invalid"
  /\ ~RejectedByHandler(req)
  /\ summary = None
  /\ wb.rows = NoRows


\* ------------------------------------------------ the summary's issue ledger

\* The summary of a run that has logged the missing-code error for n rows
SummaryAfter(n, validation_mode) ==
  [ NewSummary(DefaultFilename, FALSE, "merge", validation_mode, "last_wins") EXCEPT
      !.row_issues = [i \in 1..n |-> [ level |-> "error", sheet |-> <<"C", "V", "M">>,
                                      row |-> Some(i + 3), message |-> MissingCode ]],
      !.error_count = n ]

\* The run has two slots left in row_issues when the calls below start
IssuesLogged == ROW_ISSUE_LIMIT - 2

\* How many further calls of _record_issue and _add_warning are followed
MaxIssues == 4

InvalidDoorCount == Msg("Invalid Door Count '{0}'; value ignored.", <<<<"x">>>>)

\* The warnings of the passes whose sheet is missing, added without a sheet
SheetNotFound ==
  [ get_data |-> Msg("Get Data sheet not found; skipped customer master import.", <<>>),
    details |-> Msg("Customer Details sheet not found; skipped store/contact import.", <<>>),
    cvm |-> Msg("CVM sheet not found; skipped monthly planning import.", <<>>),
    database |-> Msg("Database sheet not found; skipped product import.", <<>>) ]

SheetLevelMessages == {SheetNotFound[sheet] : sheet \in SheetNames}

InitIssues ==
  /\ store = EmptyDb
  /\ db = store
  /\ summary \in {Some(SummaryAfter(IssuesLogged, mode))[1] : mode \in {"standard", "strict"}}
  /\ territory_cache = <<>>
  /\ seen = NoneSeen
  /\ columns = NoColumns
  /\ exc = ""
  /\ pc = "recording"
  /\ req = DefaultRequest
  /\ wb = WorkbookFull
  /\ file = None
  /\ response = NoResponse

MoreIssues == summary.error_count + summary.warning_count < IssuesLogged + MaxIssues

\* A call of _record_issue by a row
RecordIssue ==
  /\ pc = "recording"
  /\ MoreIssues
  /\ \E level \in {"error", "warning", _validation_level(summary)},
        row \in {Some(4), Some(5)},
        message \in {MissingCode, InvalidDoorCount} :
       summary' = _record_issue(summary, level, <<"C", "V", "M">>, row, message)
  /\ UNCHANGED <<store, db, territory_cache, seen, columns, exc, pc, req, wb, file, response>>

\* A call of _add_warning: without a sheet, with an empty one, or with a sheet
AddWarning ==
  /\ pc = "recording"
  /\ MoreIssues
  /\ \/ \E message \in SheetLevelMessages, sheet \in {None, Some(<<>>)} :
          summary' = _add_warning(summary, message, sheet, None)
     \/ summary' = _add_warning(summary, InvalidDoorCount, Some(<<"C", "V", "M">>), Some(4))
  /\ UNCHANGED <<store, db, territory_cache, seen, columns, exc, pc, req, wb, file, response>>

NextIssues ==
  \/ RecordIssue
  \/ AddWarning

SpecIssues == InitIssues /\ [][NextIssues]_vars

\* How many entries of the warnings list were added without a sheet
RECURSIVE SheetLevelWarnings(_)
SheetLevelWarnings(warnings) ==
  IF warnings = <<>> THEN 0
  ELSE (IF Head(warnings) \in SheetLevelMessages THEN 1 ELSE 0)
         + SheetLevelWarnings(Tail(warnings))

\* The call of the step added a warning without a sheet
AddsSheetLevelWarning ==
  SheetLevelWarnings(summary'.warnings) = SheetLevelWarnings(summary.warnings) + 1

\* C19: row_issues holds at most ROW_ISSUE_LIMIT entries in recording order; an
\* issue recorded once the list is full is dropped from the list and counted in
\* row_issues_truncated; error_count and warning_count count every issue; a
\* warning added without a sheet goes to the warnings list only; and the length
\* of row_issues plus row_issues_truncated equals error_count plus warning_count
\* minus the number of warnings added without a sheet.
C19_IssueLedger ==
  /\ [](/\ Len(summary.row_issues) <= ROW_ISSUE_LIMIT
        /\ Len(summary.row_issues) + summary.row_issues_truncated
             = summary.error_count + summary.warning_count
                 - SheetLevelWarnings(summary.warnings))
  /\ [][ /\ summary'.error_count + summary'.warning_count
              = summary.error_count + summary.warning_count + 1
         /\ IF AddsSheetLevelWarning
            THEN /\ summary'.row_issues = summary.row_issues
                 /\ summary'.row_issues_truncated = summary.row_issues_truncated
                 /\ summary'.warning_count = summary.warning_count + 1
            ELSE IF Len(summary.row_issues) < ROW_ISSUE_LIMIT
            THEN /\ Len(summary'.row_issues) = Len(summary.row_issues) + 1
                 /\ SubSeq(summary'.row_issues, 1, Len(summary.row_issues)) = summary.row_issues
                 /\ summary'.row_issues_truncated = summary.row_issues_truncated
            ELSE /\ summary'.row_issues = summary.row_issues
                 /\ summary'.row_issues_truncated = summary.row_issues_truncated + 1 ]_vars

\* The list is full, an issue was dropped and a warning without a sheet was added
C19_Witness ==
  /\ pc = "recording"
  /\ Len(summary.row_issues) = ROW_ISSUE_LIMIT
  /\ summary.row_issues_truncated > 0
  /\ SheetLevelWarnings(summary.warnings) > 0
  /\ summary.row_issues[ROW_ISSUE_LIMIT].message = InvalidDoorCount


\* ------------------------------------------------ the passes, one by one

\* The sheet of the pass is not in the workbook
Absent(w, sheet) ==
  CASE sheet = "get_data" -> _sheet_by_prefix(w.sheets, N_GET_DATA) = None
    [] sheet = "details" -> _sheet_by_prefix(w.sheets, N_CUSTOMER_DETAILS) = None
    [] sheet = "cvm" -> _sheet_by_exact(w.sheets, N_CVM) = None
    [] sheet = "database" -> _sheet_by_exact(w.sheets, N_DATABASE) = None

\* The pass has rows to read: its sheet is there, and the Database sheet has a
\* product group
Importable(w, sheet) ==
  /\ ~Absent(w, sheet)
  /\ sheet = "database" => HeadersOf(w).database[1].product_groups # <<>>

SheetRequests ==
  { Request(W_APPLY, W_MERGE, v, W_LAST_WINS, y) :
      v \in {W_STANDARD, W_STRICT}, y \in {<<>>, <<"2", "0", "2", "7">>} }

InitSheets ==
  /\ store \in InitialStores
  /\ db = store
  /\ summary = None
  /\ territory_cache = <<>>
  /\ seen = NoneSeen
  /\ columns = NoColumns
  /\ exc = ""
  /\ pc = "idle"
  /\ req \in SheetRequests
  /\ wb \in KnownWorkbooks
  /\ file \in {Some(f) : f \in {g \in Files : \A sheet \in SheetNames :
                                          g[sheet] # <<>> => Importable(wb, sheet)}}
  /\ response = NoResponse

SpecSheets == InitSheets /\ [][Next]_vars

\* The place of a pass in the order of the run: 0 before the first, 5 after the last
StageOf(p) ==
  CASE p \in {"get_data", "no_get_data"} -> 1
    [] p \in {"details", "no_details"} -> 2
    [] p \in {"cvm", "no_cvm"} -> 3
    [] p \in {"database", "no_database"} -> 4
    [] p = "returned" -> 5
    [] OTHER -> 0

\* The step enters the pass of the sheet
Entering(sheet) ==
  /\ pc \notin {sheet, "no_" \o sheet}
  /\ pc' \in {sheet, "no_" \o sheet}

WarningsOf(s) == IF s = None THEN <<>> ELSE s.warnings

BlockersOf(s) == IF s = None THEN <<>> ELSE s.blockers

\* Neither the form nor the workbook gives the calendar year
YearUnresolved == COALESCE(YearOverride(req), HeadersOf(wb).calendar_year) = None

\* The passes are entered in the order roster, detail, plan-grid, product, and
\* the importer returns after the fourth; a pass whose sheet has rows to read
\* reads them, and a skipped pass reads and writes nothing
PassesInOrder ==
  /\ pc' # pc /\ pc' = "returned" => StageOf(pc) = 4
  /\ pc' # pc /\ StageOf(pc') \in 1..4 => StageOf(pc') = StageOf(pc) + 1
  /\ \A sheet \in SheetNames :
       /\ Entering(sheet) /\ Importable(wb, sheet) => pc' = sheet
       /\ pc = "no_" \o sheet => db' = db /\ wb' = wb

\* What the step that enters the pass of an absent sheet does, apart from the
\* number of warnings it adds
SkipsAbsent(sheet) ==
  /\ pc' = "no_" \o sheet
  /\ db' = db
  /\ BlockersOf(summary') = BlockersOf(summary)
  /\ summary'.row_issues = IF summary = None THEN <<>> ELSE summary.row_issues
  /\ summary'.warnings[Len(summary'.warnings)] = SheetNotFound[sheet]

\* C20 as stated: the four passes run in the fixed order, and the pass of an
\* absent sheet adds exactly one warning without a sheet, writes nothing, adds no
\* blocker, and the later passes still run.
C20_AbsentSheetOneWarning ==
  [][ /\ PassesInOrder
      /\ \A sheet \in SheetNames :
           Entering(sheet) /\ Absent(wb, sheet) =>
             /\ SkipsAbsent(sheet)
             /\ Len(summary'.warnings) = Len(WarningsOf(summary)) + 1 ]_vars

\* C20: the four passes run in the fixed order roster, detail, plan-grid,
\* product; the pass of an absent sheet adds the warning that its sheet was not
\* found and no other, except that the plan-grid pass first adds the warning of
\* the defaulted calendar year when neither the form nor the workbook gives a
\* year; it writes nothing and adds no blocker, and the later passes still run.
C20_AbsentSheetWarned ==
  [][ /\ PassesInOrder
      /\ \A sheet \in SheetNames :
           Entering(sheet) /\ Absent(wb, sheet) =>
             /\ SkipsAbsent(sheet)
             /\ Len(summary'.warnings)
                  = Len(WarningsOf(summary)) + 1
                      + (IF sheet = "cvm" /\ YearUnresolved THEN 1 ELSE 0) ]_vars

\* A run without Get Data and Customer Details sheets warned of both, then read
\* a plan-grid row and a product row and was committed
C20_Witness ==
  /\ pc = "done"
  /\ response.status = 200
  /\ Absent(wb, "get_data")
  /\ Absent(wb, "details")
  /\ summary.warnings[1] = SheetNotFound["get_data"]
  /\ summary.warnings[2] = SheetNotFound["details"]
  /\ summary.blockers = <<>>
  /\ summary.cvm_entries_upserted > 0
  /\ Len(wb.rows["database"]) = 1


\* The three counters of an entity, added up
CustomerCalls(s) == s.customers_created + s.customers_updated + s.customers_skipped_existing

StoreCalls(s) == s.stores_created + s.stores_updated + s.stores_skipped_existing

ProductCalls(s) == s.products_created + s.products_updated + s.products_skipped_existing

\* No counter of the entity goes down in the step
CountersGrow ==
  \A c \in {"customers_created", "customers_updated", "customers_skipped_existing",
            "stores_created", "stores_updated", "stores_skipped_existing",
            "products_created", "products_updated", "products_skipped_existing"} :
    summary'[c] >= summary[c]

\* The Database row has something to store for product group g
ProductSupplied(row, g) ==
  LET col == columns.product_groups[g].col IN
  \/ _clean_text(_cell_value(row, col)) # <<>>
  \/ _clean_text(_cell_value(row, col + 1)) # <<>>
  \/ _clean_text(_cell_value(row, col + 2)) # <<>>
  \/ _to_date(_cell_value(row, col + 3)) # None
  \/ _clean_text(_cell_value(row, col + 4)) # <<>>
  \/ _to_date(_cell_value(row, columns.database_columns[1].last_visit_col)) # None

\* The customer upsert of the step: one counter, one more; a code the session
\* does not hold is inserted and counted as created
CustomerCounted(sheet) ==
  IF ReachesCustomerUpsert(sheet)
  THEN /\ CustomerCalls(summary') = CustomerCalls(summary) + 1
       /\ CustomerIdOf(db, CodeOfRow(sheet, RowRead(sheet))) = None =>
            /\ summary'.customers_created = summary.customers_created + 1
            /\ Len(db'.customers) = Len(db.customers) + 1
            /\ CustomerIdOf(db', CodeOfRow(sheet, RowRead(sheet))) = Some(Len(db'.customers))
  ELSE /\ CustomerCalls(summary') = CustomerCalls(summary)
       /\ Len(db'.customers) = Len(db.customers)

\* The store upsert of the step, in the same way
StoreCounted(sheet) ==
  IF sheet = "details" /\ ReadsRow(sheet) /\ Upserted(sheet)
  THEN LET row == RowRead(sheet)
           id == CustomerIdOf(db', CodeOfRow(sheet, row))
       IN /\ StoreCalls(summary') = StoreCalls(summary) + 1
          /\ StoreLookup(db, id[1], StoreParams(DetailPayload(row))) = None =>
               /\ summary'.stores_created = summary.stores_created + 1
               /\ Len(db'.stores) = Len(db.stores) + 1
               /\ StoreLookup(db', id[1], StoreParams(DetailPayload(row)))
                    = Some(Len(db'.stores))
  ELSE /\ StoreCalls(summary') = StoreCalls(summary)
       /\ Len(db'.stores) = Len(db.stores)

\* The product upserts of the step, one for each product group the row supplies
ProductsCounted(sheet) ==
  IF sheet = "database" /\ ReadsRow(sheet) /\ Upserted(sheet)
  THEN LET row == RowRead(sheet)
           id == CustomerIdOf(db', CodeOfRow(sheet, row))
           supplied == {g \in 1..Len(columns.product_groups) : ProductSupplied(row, g)}
           missing == {g \in supplied :
                         ProductLookup(db, id[1], columns.product_groups[g].name) = None}
       IN /\ ProductCalls(summary') = ProductCalls(summary) + Cardinality(supplied)
          /\ summary'.products_created = summary.products_created + Cardinality(missing)
          /\ Len(db'.products) = Len(db.products) + Cardinality(missing)
          /\ \A g \in supplied :
               ProductLookup(db', id[1], columns.product_groups[g].name) # None
  ELSE /\ ProductCalls(summary') = ProductCalls(summary)
       /\ Len(db'.products) = Len(db.products)

\* C21: an upsert of a customer, store or product whose key the session does not
\* hold inserts a row under every upsert policy, and every upsert call adds one
\* to exactly one of the entity's counters created, updated and skipped_existing,
\* so that the three counters of an entity add up to the upsert calls of the run.
C21_EveryUpsertCounted ==
  [][ \A sheet \in SheetNames :
        pc = sheet /\ exc' = "" =>
          /\ CountersGrow
          /\ CustomerCounted(sheet)
          /\ StoreCounted(sheet)
          /\ ProductsCounted(sheet) ]_vars

\* A committed create_only run created a customer, met it again in a later pass
\* and created its store and its product
C21_Witness ==
  /\ pc = "done"
  /\ response.status = 200
  /\ ImportMode(req.import_mode) = "apply"
  /\ summary.upsert_policy = "create_only"
  /\ summary.customers_created = 1
  /\ summary.customers_skipped_existing = 1
  /\ summary.stores_created = 1
  /\ summary.products_created = 1
  /\ Len(store.customers) = 1


\* The step records the missing-code error for the row it reads
LogsMissingCode(sheet) ==
  \E i \in (Len(summary.row_issues) + 1)..Len(summary'.row_issues) :
    /\ summary'.row_issues[i].level = "error"
    /\ summary'.row_issues[i].message = MissingCode
    /\ summary'.row_issues[i].row = Some(Len(wb'.rows[sheet])
                                          + (CASE sheet = "get_data" -> 1
                                               [] sheet = "details" -> 2
                                               [] sheet = "cvm" -> 3
                                               [] sheet = "database" -> 4))

\* C22: in every pass a row without a customer code but with a populated cell
\* is recorded as an error-level issue "missing customer code", writes nothing,
\* and the pass goes on to the next row.
C22_MissingCodeRecorded ==
  [][ \A sheet \in SheetNames :
        /\ TakesRow(sheet)
        /\ CodeOfRow(sheet, RowRead(sheet)) = <<>>
        /\ ~NoCellPopulated(RowRead(sheet))
        => /\ LogsMissingCode(sheet)
           /\ summary'.error_count > summary.error_count
           /\ db' = db
           /\ exc' = ""
           /\ pc' = pc ]_vars


\* The run arbitrates duplicates and does not promote validation issues
Lenient ==
  /\ summary.validation_mode = "standard"
  /\ summary.duplicate_policy \in {"last_wins", "first_wins"}

\* C23: under validation_mode=standard with duplicate_policy last_wins or
\* first_wins no row is fatal to the run: no step of a pass raises, and the
\* summary the importer returns has no blockers and can_apply = TRUE.
C23_NoRowErrorFatal ==
  /\ [][ InPasses /\ Lenient => pc' # "raised" ]_vars
  /\ [](pc = "returned" /\ Lenient => summary.blockers = <<>> /\ summary.can_apply)


\* ------------------------------------------------- the reporting year

\* Apply requests with and without a year override
YearRequests ==
  { Request(W_APPLY, W_MERGE, W_STANDARD, W_LAST_WINS, y) : y \in {<<>>, <<"2", "0", "2", "7">>} }

\* One plan-grid row for customer C1 with a planned and completed January
YearFile == [NoRows EXCEPT !.cvm = << << IntCell(3), NoCell, StrCell(<<"C", "1">>), StrCell(<<"X">>), StrCell(<<"A">>), NoCell, NoCell, DateTimeCell(2026, 1, 5), BoolCell(TRUE) >> >>]

InitYears ==
  /\ store = EmptyDb
  /\ db = store
  /\ summary = None
  /\ territory_cache = <<>>
  /\ seen = NoneSeen
  /\ columns = NoColumns
  /\ exc = ""
  /\ pc = "idle"
  /\ req \in YearRequests
  /\ \/ wb \in YearWorkbooks /\ file = Some(YearFile)
     \/ wb = WorkbookFull /\ file = None
  /\ response = NoResponse

SpecYears == InitYears /\ [][Next]_vars

\* The sheet of the workbook holds a year in 2000..2100 at R4
HoldsYear(i) == _year_from_value(wb.sheets[i].r4) # None

\* The sheet is named after month m
NamedAfter(i, m) == Lower(Strip(wb.sheets[i].name)) = Lower(MONTH_NAMES[m])

\* The sheets named after a month that hold a year, as <<month, position>>
DatedMonthSheets ==
  { <<m, i>> \in (1..12) \X (1..Len(wb.sheets)) : NamedAfter(i, m) /\ HoldsYear(i) }

DatedSheets == { i \in 1..Len(wb.sheets) : HoldsYear(i) }

\* The year by the stated precedence, None when neither the request nor the
\* workbook gives one
YearByPrecedence ==
  IF YearOverride(req) # None THEN YearOverride(req)
  ELSE IF DatedMonthSheets # {}
       THEN _year_from_value(
              wb.sheets[(CHOOSE p \in DatedMonthSheets : \A q \in DatedMonthSheets : p[1] <= q[1])[2]].r4)
       ELSE IF DatedSheets # {}
            THEN _year_from_value(
                   wb.sheets[CHOOSE i \in DatedSheets : \A j \in DatedSheets : i <= j].r4)
            ELSE None

YearDefaulted ==
  Msg("Calendar year could not be resolved from workbook. Defaulted to {0}.", <<NatStr(UtcNowYear)>>)

\* The plan-grid pass was entered: the year is resolved
YearKnown == pc \in {"cvm", "no_cvm", "database", "no_database", "returned"}

\* C24: the reporting year is the override if given, else the first year in
\* 2000..2100 at R4 of the month-named sheets in calendar order, else the first
\* at R4 of any sheet in workbook order, else the current year with a warning;
\* summary.calendar_year is that year and every plan entry of the run carries it.
C24_YearByPrecedence ==
  YearKnown =>
    /\ summary.calendar_year = COALESCE(YearByPrecedence, Some(UtcNowYear))
    /\ (YearByPrecedence = None) <=> (\E i \in 1..Len(summary.warnings) : summary.warnings[i] = YearDefaulted)
    /\ \A key \in DOMAIN db.cvm_month_entries : key[2] = COALESCE(YearByPrecedence, Some(UtcNowYear))[1]

\* A returned run without override whose year comes from the later of two dated
\* sheets, a month sheet, and whose plan entry carries it
C24_Witness ==
  /\ pc = "returned"
  /\ YearOverride(req) = None
  /\ \E i \in DatedSheets : i < 3 /\ NamedAfter(3, 1) /\ HoldsYear(3)
                            /\ _year_from_value(wb.sheets[i].r4) # _year_from_value(wb.sheets[3].r4)
  /\ \E key \in DOMAIN db.cvm_month_entries : key[2] = _year_from_value(wb.sheets[3].r4)[1]


\* An earlier row of the same pass registered the key of the row the step reads
RepeatsInPass(sheet) ==
  /\ KeyOfRow(sheet, RowRead(sheet)) # None
  /\ \E i \in 1..Len(wb.rows[sheet]) :
       KeyOfRow(sheet, wb.rows[sheet][i]) = KeyOfRow(sheet, RowRead(sheet))

\* The step adds a row issue about a duplicate key
ReportsDuplicate ==
  \E i \in (Len(summary.row_issues) + 1)..Len(summary'.row_issues) :
    summary'.row_issues[i].message.fmt = DuplicateMessage(<<>>, <<>>, 0, <<>>).fmt

\* C25: each pass detects duplicates in its own first-seen map. A row whose key
\* no earlier row of the same pass registered adds no duplicate issue, no
\* duplicate_rows_skipped and no blocker under any duplicate policy, whatever
\* the other passes have read; a row that repeats a key of its pass is reported.
C25_SeenPerPass ==
  [][ \A sheet \in SheetNames :
        ReadsRow(sheet) =>
          IF RepeatsInPass(sheet)
          THEN ReportsDuplicate
          ELSE /\ ~ReportsDuplicate
               /\ summary'.duplicate_rows_skipped = summary.duplicate_rows_skipped
               /\ summary'.blockers = summary.blockers ]_vars

\* A returned run under duplicate policy error in which every sheet held one
\* row for customer C1, and nothing was counted or blocked as a duplicate
C25_Witness ==
  /\ pc = "returned"
  /\ summary.duplicate_policy = "error"
  /\ \A sheet \in SheetNames :
       /\ Len(wb.rows[sheet]) = 1
       /\ CodeOfRow(sheet, wb.rows[sheet][1]) = <<"C", "1">>
       /\ KeyOfRow(sheet, wb.rows[sheet][1]) # None
  /\ summary.duplicate_rows_skipped = 0
  /\ summary.blockers = <<>>
  /\ summary.can_apply


\* The rows of sheet read so far that name territory name
NamingTerritory(sheet, name) ==
  { i \in 1..Len(wb.rows[sheet]) : TerritoryOfRow(sheet, wb.rows[sheet][i]) = name }

\* C26: territory creation is idempotent within a run and across committed
\* runs. No two territory rows share a name; during a run the territories of
\* the committed store are still the first rows of the session's table,
\* unchanged, and territories_created counts exactly the rows added after them.
C26_TerritoriesOnce ==
  /\ [](NoRepeat(db.territories) /\ NoRepeat(store.territories))
  /\ [](InRun =>
          /\ Len(db.territories) >= Len(store.territories)
          /\ SubSeq(db.territories, 1, Len(store.territories)) = store.territories
          /\ summary.territories_created = Len(db.territories) - Len(store.territories))

\* The second of two committed runs returns: territory T, created by the first,
\* is named by a roster row and a plan-grid row and nothing is created
C26_Witness ==
  /\ pc = "returned"
  /\ file # None
  /\ store.territories = << [name |-> <<"T">>] >>
  /\ NamingTerritory("get_data", <<"T">>) # {}
  /\ NamingTerritory("cvm", <<"T">>) # {}
  /\ db.territories = store.territories
  /\ summary.territories_created = 0


\* The sort bucket the plan-grid pass reads from a row
SortOfRow(row) == _clean_text(_column_value(row, Some(columns.cvm_columns[1].sort_col)))

\* The stores the session holds for the customer of the plan-grid row read
StoresOfRow ==
  { i \in 1..Len(db.stores) :
      Some(db.stores[i].customer_id) = CustomerIdOf(db', CodeOfRow("cvm", RowRead("cvm"))) }

\* C27: in the plan-grid pass an accepted row with a sort bucket sets the
\* sort_bucket of the lowest-id store of its customer and changes no other
\* store; it creates no store, and without a store of the customer the stores
\* table is left as it was.
C27_SortBucketOfFirstStore ==
  [][ ReachesCustomerUpsert("cvm") /\ SortOfRow(RowRead("cvm")) # <<>> =>
        IF StoresOfRow = {}
        THEN db'.stores = db.stores
        ELSE db'.stores =
               [db.stores EXCEPT
                  ![CHOOSE i \in StoresOfRow : \A j \in StoresOfRow : i <= j].sort_bucket =
                     Some(SortOfRow(RowRead("cvm")))] ]_vars

\* Customer C1 holds two stores and a plan-grid row with sort bucket X was
\* read: the first store carries X, the second does not
C27_Witness ==
  /\ pc = "cvm"
  /\ Len(wb.rows.cvm) = 1
  /\ SortOfRow(wb.rows.cvm[1]) = <<"X">>
  /\ Len(db.stores) = 2
  /\ db.stores[1].customer_id = db.stores[2].customer_id
  /\ db.stores[1].sort_bucket = Some(<<"X">>)
  /\ db.stores[2].sort_bucket # Some(<<"X">>)


\* C28: under upsert_policy=create_only the run mutates no store of the
\* committed store: every field of every such store, sort_bucket included,
\* keeps its value through the four passes.
C28_CreateOnlyKeepsStores ==
  InRun /\ summary.upsert_policy = "create_only" => Kept(store.stores, db.stores)


\* The fields of a customer that the roster pass alone supplies
RosterOnlyFields == {"group_name", "group_2_iws", "iws_code", "old_value", "old_name"}

\* The session holds the customer the row read from sheet names
HeldCustomer(sheet) == CustomerIdOf(db, CodeOfRow(sheet, RowRead(sheet)))

DatabaseError ==
  /\ pc \in SheetNames
  /\ exc' = "SQLAlchemyError"
  /\ pc' = "raised"
  /\ UNCHANGED <<store, db, summary, territory_cache, seen, columns, req, wb, file, response>>

InitFaults == Init /\ req \in PolicyRequests /\ wb = WorkbookFull

NextFaults ==
  \/ Next
  \/ DatabaseError

SpecFaults == InitFaults /\ [][NextFaults]_vars

\* C30: the request changes the committed store only in a successful apply
\* with can_apply = TRUE. When import_planner_workbook raises, also after rows
\* were written, the handler rolls back: the committed store is what it was
\* before the request, the session holds it again, and the answer is an error.
C30_EveryOtherExitRollsBack ==
  /\ [][ store' # store =>
           pc = "returned" /\ Applying /\ summary.can_apply /\ response'.status = 200 ]_vars
  /\ [][ pc = "raised" =>
           /\ store' = store
           /\ db' = store
           /\ pc' = "done"
           /\ response' = Reply(IF exc = "ValueError" THEN 400 ELSE 500) ]_vars
  /\ [](pc = "done" /\ response.status # 200 => db = store)

\* The importer raised a database error after its rows wrote to the session
C30_Witness == pc = "raised" /\ exc = "SQLAlchemyError" /\ db # store

====
